---- MODULE Spec2Model ----
(***************************************************************************)
(* Model of the Aqua watchface (src/src/c/main.c, the advanced variant):   *)
(* the entity pools, the per-tick simulation step animation_update, the    *)
(* tick driver animation_timer_callback and the window lifecycle           *)
(* (init, main_window_load, main_window_unload, deinit).                   *)
(*                                                                         *)
(* The host (Pebble SDK) is modelled at its interface only: a set of       *)
(* pending one-shot timers, allocation calls that may return NULL, and     *)
(* create/destroy counters for the objects it hands out.                   *)
(*                                                                         *)
(* rand() is modelled as a table of sample values; every step picks one    *)
(* stream k, and the draw made at call site s for array index i is         *)
(* RandTable[(k*7 + s*3 + i*5) mod Len].                                   *)
(***************************************************************************)
EXTENDS Integers, Sequences, FiniteSets, TLC

(***************************************************************************)
(* Program constants                                                       *)
(***************************************************************************)
MAX_FISH == 5
MAX_BIG_FISH == 2
MAX_SEAWEED == 4
MAX_BUBBLES == 8
MAX_PLANKTON == 6
MAX_TURTLES == 1
MAX_JELLYFISH == 1
ANIMATION_INTERVAL == 50
ANIMATION_INTERVAL_LOW_POWER == 100
LOW_BATTERY_THRESHOLD == 20
GRID_WIDTH == 3
GRID_HEIGHT == 3
GRID_CELL_COUNT == GRID_WIDTH * GRID_HEIGHT
TRIG_MAX_ANGLE == 65536
INT_MAX == 2147483647
NULL == 0

(***************************************************************************)
(* Bounds of the model                                                     *)
(***************************************************************************)
\* number of rand() streams a step may pick from
NumStreams == 2
\* number of animation ticks explored from an initial state
MaxTicks == 2

FishIdx == 0 .. (MAX_FISH + MAX_BIG_FISH - 1)
SmallIdx == 0 .. (MAX_FISH - 1)
BubbleIdx == 0 .. (MAX_BUBBLES - 1)
PlanktonIdx == 0 .. (MAX_PLANKTON - 1)
SeaweedIdx == 0 .. (MAX_SEAWEED - 1)
CellIdx == 0 .. (GRID_CELL_COUNT - 1)
Streams == 1 .. NumStreams

(***************************************************************************)
(* C integer arithmetic                                                    *)
(***************************************************************************)
\* C's / truncates toward zero
CDiv(a, b) == IF a >= 0 THEN a \div b ELSE -((-a) \div b)

\* C's % for a dividend r >= 0: the sign of the divisor does not matter; with
\* a zero divisor the target's SDIV gives quotient 0 and the remainder is r
CRem(r, w) ==
    IF w = 0 THEN r
    ELSE IF w = (-INT_MAX) - 1 THEN r
    ELSE IF w < 0 THEN r % (-w)
    ELSE r % w

\* abs() of <stdlib.h>
abs(a) == IF a < 0 THEN -a ELSE a

(***************************************************************************)
(* rand()                                                                  *)
(***************************************************************************)
\* sample outputs of rand(): 0 .. RAND_MAX
RandTable == <<0, 1, 2, 3, 7, 99, 300, 401, 2147483647, 32767, 1200>>

\* the call sites of rand(), numbered in source order
Site == [fish_y |-> 1, fish_dir |-> 2, fish_speed |-> 3,
         seaweed_speed |-> 4,
         bubble_x |-> 5, bubble_size |-> 6, bubble_speed |-> 7,
         plankton_x |-> 8, plankton_y |-> 9, plankton_dir |-> 10, plankton_speed |-> 11,
         octopus_x |-> 12, octopus_dir |-> 13,
         turtle_y |-> 14, turtle_dir |-> 15,
         jelly_speed |-> 16,
         shark_dir |-> 17, shark_y |-> 18, shark_timer |-> 19,
         eat_size |-> 20, eat_speed |-> 21,
         respawn |-> 22,
         wobble |-> 23, wobble_dx |-> 24, bubble_spawn |-> 25,
         drift |-> 26, drift_dx |-> 27, drift_dy |-> 28, plankton_spawn |-> 29,
         shark_eat_size |-> 30, shark_eat_speed |-> 31, shark_cooldown |-> 32,
         clam_open |-> 33,
         jelly_move |-> 34, jelly_dx |-> 35,
         octopus_move |-> 36, octopus_dx |-> 37,
         load_plankton |-> 38]

\* the value rand() returns at call site s for array index i in stream k
Rand(k, s, i) == RandTable[((k * 7 + s * 3 + i * 5) % Len(RandTable)) + 1]

\* if (max <= min) return min; range = max - min + 1;
\* if (range <= 0) return min; return min + (rand() % range);
\* r is the value rand() returns.  When max - min + 1 does not fit an int the
\* signed overflow is undefined: the set holds the outcome of a build that
\* wraps and keeps the range test (min) and of a build that drops the test
\* and divides by the wrapped range.
RangeOverflows(min, max) ==
    IF min < 0 THEN max > (INT_MAX - 1) + min
               ELSE min = 0 /\ max = INT_MAX

WrappedRange(min, max) == ((max - INT_MAX) + (-(min + INT_MAX))) - 1

\* random_results without the offset: rand() % range for min + (rand() % range)
random_results_no_offset(min, max, r) ==
    IF max <= min THEN {min}
    ELSE IF RangeOverflows(min, max)
         THEN LET w == WrappedRange(min, max)
              IN  {min, CRem(r, w)}
         ELSE LET range == max - min + 1
              IN  IF range <= 0 THEN {min} ELSE {r % range}

random_results(min, max, r) ==
    IF max <= min THEN {min}
    ELSE IF RangeOverflows(min, max)
         THEN LET w == WrappedRange(min, max)
              IN  {min, min + CRem(r, w)}
         ELSE LET range == max - min + 1
              IN  IF range <= 0 THEN {min} ELSE {min + (r % range)}

\* random_in_range on the pairs the engine passes: no overflow, one outcome
random_in_range(min, max, r) == CHOOSE v \in random_results(min, max, r) : TRUE

(***************************************************************************)
(* Spawners                                                                *)
(***************************************************************************)
\* init_fish(fish, size): grid_cell is not written and keeps its old value
init_fish(fish, size, k, i) ==
    LET y == random_in_range(20, 119, Rand(k, Site.fish_y, i))
        d == (random_in_range(0, 1, Rand(k, Site.fish_dir, i)) * 2) - 1
        sp == IF size = 1 THEN random_in_range(2, 4, Rand(k, Site.fish_speed, i))
                          ELSE random_in_range(1, 2, Rand(k, Site.fish_speed, i))
    IN  [pos |-> [x |-> IF d = 1 THEN -10 ELSE 144, y |-> y],
         direction |-> d, speed |-> sp, active |-> TRUE, size |-> size,
         grid_cell |-> fish.grid_cell]

init_seaweed(x, k, i) ==
    [base |-> [x |-> x, y |-> 168], offset |-> 0,
     speed |-> random_in_range(1, 2, Rand(k, Site.seaweed_speed, i))]

init_bubble(k, i) ==
    [pos |-> [x |-> random_in_range(0, 143, Rand(k, Site.bubble_x, i)), y |-> 168],
     size |-> random_in_range(1, 3, Rand(k, Site.bubble_size, i)),
     speed |-> random_in_range(1, 3, Rand(k, Site.bubble_speed, i)),
     active |-> TRUE]

init_plankton(k, i) ==
    [pos |-> [x |-> random_in_range(0, 143, Rand(k, Site.plankton_x, i)),
              y |-> random_in_range(20, 139, Rand(k, Site.plankton_y, i))],
     direction |-> (random_in_range(0, 1, Rand(k, Site.plankton_dir, i)) * 2) - 1,
     speed |-> random_in_range(1, 2, Rand(k, Site.plankton_speed, i)),
     active |-> TRUE]

init_octopus(k) ==
    [pos |-> [x |-> random_in_range(37, 106, Rand(k, Site.octopus_x, 0)), y |-> 25],
     direction |-> (random_in_range(0, 1, Rand(k, Site.octopus_dir, 0)) * 2) - 1,
     tentacle_offset |-> 0, speed |-> 1]

init_turtle(k, i) ==
    LET y == random_in_range(60, 119, Rand(k, Site.turtle_y, i))
        d == (random_in_range(0, 1, Rand(k, Site.turtle_dir, i)) * 2) - 1
    IN  [pos |-> [x |-> IF d = 1 THEN -15 ELSE 144, y |-> y],
         direction |-> d, animation_offset |-> 0, speed |-> 1]

init_jellyfish(k, i) ==
    [pos |-> [x |-> 72, y |-> 120], tentacle_offset |-> 0, pulse_state |-> 0,
     speed |-> random_in_range(1, 2, Rand(k, Site.jelly_speed, i))]

init_shark(k) ==
    LET d == (random_in_range(0, 1, Rand(k, Site.shark_dir, 0)) * 2) - 1
    IN  [pos |-> [x |-> IF d = 1 THEN -30 ELSE 174,
                  y |-> random_in_range(50, 99, Rand(k, Site.shark_y, 0))],
         direction |-> d, jaw_state |-> 0, speed |-> 3, active |-> FALSE,
         timer |-> random_in_range(150, 299, Rand(k, Site.shark_timer, 0))]

init_seahorse == [pos |-> [x |-> 20, y |-> 140], curve_state |-> 0, active |-> TRUE, timer |-> 0]

init_crab == [pos |-> [x |-> 100, y |-> 160], direction |-> -1, claw_state |-> 0, speed |-> 1]

init_clam == [pos |-> [x |-> 120, y |-> 165], open_state |-> 0]

(***************************************************************************)
(* Collision test and spatial grid                                         *)
(***************************************************************************)
\* check_collision with < for <=: circles that touch do not collide
check_collision_strict(pos1, radius1, pos2, radius2) ==
    LET dx == pos1.x - pos2.x
        dy == pos1.y - pos2.y
        distance_squared == (dx * dx) + (dy * dy)
        radius_sum == radius1 + radius2
    IN  distance_squared < (radius_sum * radius_sum)

check_collision(pos1, radius1, pos2, radius2) ==
    LET dx == pos1.x - pos2.x
        dy == pos1.y - pos2.y
        distance_squared == (dx * dx) + (dy * dy)
        radius_sum == radius1 + radius2
    IN  distance_squared <= (radius_sum * radius_sum)

\* GRID_CELL_WIDTH is the token sequence 144 / GRID_WIDTH, so
\* point.x / GRID_CELL_WIDTH is (point.x / 144) / 3; likewise for y with 168
get_grid_cell(point) ==
    LET gx0 == CDiv(CDiv(point.x, 144), GRID_WIDTH)
        gy0 == CDiv(CDiv(point.y, 168), GRID_HEIGHT)
        gx1 == IF gx0 < 0 THEN 0 ELSE gx0
        grid_x == IF gx1 >= GRID_WIDTH THEN GRID_WIDTH - 1 ELSE gx1
        gy1 == IF gy0 < 0 THEN 0 ELSE gy0
        grid_y == IF gy1 >= GRID_HEIGHT THEN GRID_HEIGHT - 1 ELSE gy1
    IN  (grid_y * GRID_WIDTH) + grid_x

\* PlaceFish writing one slot past the count of the cell
PlaceFishOffByOne(g, i) ==
    IF ~g.fish[i].active THEN g
    ELSE LET cell == get_grid_cell(g.fish[i].pos)
             f2 == [g.fish EXCEPT ![i].grid_cell = cell]
         IN  IF g.counts[cell] < MAX_FISH + MAX_BIG_FISH
             THEN [fish |-> f2,
                   in_grid |-> [g.in_grid EXCEPT ![cell][g.counts[cell] + 1] = i],
                   counts |-> [g.counts EXCEPT ![cell] = @ + 1]]
             ELSE [g EXCEPT !.fish = f2]

\* PlaceFish without the test of the active flag
PlaceFishAnyFish(g, i) ==
    LET cell == get_grid_cell(g.fish[i].pos)
        f2 == [g.fish EXCEPT ![i].grid_cell = cell]
    IN  IF g.counts[cell] < MAX_FISH + MAX_BIG_FISH
        THEN [fish |-> f2,
              in_grid |-> [g.in_grid EXCEPT ![cell][g.counts[cell]] = i],
              counts |-> [g.counts EXCEPT ![cell] = @ + 1]]
        ELSE [g EXCEPT !.fish = f2]

\* one iteration of the placement loop of update_spatial_grid, for fish i;
\* g is [fish, in_grid, counts]
PlaceFish(g, i) ==
    IF ~g.fish[i].active THEN g
    ELSE LET cell == get_grid_cell(g.fish[i].pos)
             f2 == [g.fish EXCEPT ![i].grid_cell = cell]
         IN  IF g.counts[cell] < MAX_FISH + MAX_BIG_FISH
             THEN [fish |-> f2,
                   in_grid |-> [g.in_grid EXCEPT ![cell][g.counts[cell]] = i],
                   counts |-> [g.counts EXCEPT ![cell] = @ + 1]]
             ELSE [g EXCEPT !.fish = f2]

RECURSIVE PlaceFrom(_, _)
PlaceFrom(g, i) ==
    IF i >= MAX_FISH + MAX_BIG_FISH THEN g ELSE PlaceFrom(PlaceFish(g, i), i + 1)

\* update_spatial_grid(): reset every count, then place the fish in index order
update_spatial_grid(fish, in_grid) ==
    PlaceFrom([fish |-> fish, in_grid |-> in_grid, counts |-> [c \in CellIdx |-> 0]], 0)

(***************************************************************************)
(* animation_update, phase by phase                                        *)
(***************************************************************************)
\* MoveOneFish advancing the fish again after init_fish
MoveOneFishAdvancesNewFish(f, k, i) ==
    IF ~f.active THEN f
    ELSE LET m == [f EXCEPT !.pos.x = @ + (f.direction * f.speed)]
         IN  IF (m.direction = 1 /\ m.pos.x > 144) \/ (m.direction = -1 /\ m.pos.x < -10)
             THEN LET n == init_fish(m, m.size, k, i)
                  IN  [n EXCEPT !.pos.x = @ + (n.direction * n.speed)]
             ELSE m

\* MoveOneFish without the test of the active flag
MoveOneFishMovesAll(f, k, i) ==
    LET m == [f EXCEPT !.pos.x = @ + (f.direction * f.speed)]
    IN  IF (m.direction = 1 /\ m.pos.x > 144) \/ (m.direction = -1 /\ m.pos.x < -10)
        THEN IF m.size = 1 THEN init_fish(m, 1, k, i) ELSE init_fish(m, 2, k, i)
        ELSE m

\* MoveOneFish with the right exit edge as far out as the left one: x > 154
MoveOneFishExitsLate(f, k, i) ==
    IF ~f.active THEN f
    ELSE LET m == [f EXCEPT !.pos.x = @ + (f.direction * f.speed)]
         IN  IF (m.direction = 1 /\ m.pos.x > 154) \/ (m.direction = -1 /\ m.pos.x < -10)
             THEN IF m.size = 1 THEN init_fish(m, 1, k, i) ELSE init_fish(m, 2, k, i)
             ELSE m

\* first loop: advance every active fish, reinitialise one past its exit edge
MoveOneFish(f, k, i) ==
    IF ~f.active THEN f
    ELSE LET m == [f EXCEPT !.pos.x = @ + (f.direction * f.speed)]
         IN  IF (m.direction = 1 /\ m.pos.x > 144) \/ (m.direction = -1 /\ m.pos.x < -10)
             THEN IF m.size = 1 THEN init_fish(m, 1, k, i) ELSE init_fish(m, 2, k, i)
             ELSE m

MoveFish(fish, k) == [i \in FishIdx |-> MoveOneFish(fish[i], k, i)]

\* indices of the fish the first loop reinitialises
MoveReinit(fish) ==
    {i \in FishIdx : /\ fish[i].active
                     /\ LET nx == fish[i].pos.x + (fish[i].direction * fish[i].speed)
                        IN  \/ (fish[i].direction = 1 /\ nx > 144)
                            \/ (fish[i].direction = -1 /\ nx < -10)}

\* CreateBubbles with the cap one higher: bubbles_created < 4
RECURSIVE CreateBubblesCapFour(_, _, _, _, _, _, _, _)
CreateBubblesCapFour(bubbles, pos, b, bubbles_created, k, sz, sp, hi) ==
    IF ~(b < MAX_BUBBLES /\ bubbles_created < 4) THEN bubbles
    ELSE IF ~bubbles[b].active
         THEN CreateBubblesCapFour([bubbles EXCEPT ![b] =
                                       [pos |-> pos,
                                        size |-> random_in_range(1, hi, Rand(k, sz, b)),
                                        speed |-> random_in_range(1, hi, Rand(k, sp, b)),
                                        active |-> TRUE]],
                                   pos, b + 1, bubbles_created + 1, k, sz, sp, hi)
         ELSE CreateBubblesCapFour(bubbles, pos, b + 1, bubbles_created, k, sz, sp, hi)

\* the eating event: up to 3 bubbles in the lowest free slots, at pos;
\* sz and sp are the rand() sites of the size and speed draws, hi their maximum
RECURSIVE CreateBubbles(_, _, _, _, _, _, _, _)
CreateBubbles(bubbles, pos, b, bubbles_created, k, sz, sp, hi) ==
    IF ~(b < MAX_BUBBLES /\ bubbles_created < 3) THEN bubbles
    ELSE IF ~bubbles[b].active
         THEN CreateBubbles([bubbles EXCEPT ![b] =
                                [pos |-> pos,
                                 size |-> random_in_range(1, hi, Rand(k, sz, b)),
                                 speed |-> random_in_range(1, hi, Rand(k, sp, b)),
                                 active |-> TRUE]],
                            pos, b + 1, bubbles_created + 1, k, sz, sp, hi)
         ELSE CreateBubbles(bubbles, pos, b + 1, bubbles_created, k, sz, sp, hi)

\* the cells visited for a predator in cell: cell_y outer, cell_x inner,
\* skipping the ones outside the grid
Offsets == <<-1, 0, 1>>

\* TargetCells without the predator's own cell: the eight neighbours only
TargetCellsNeighboursOnly(cell) ==
    LET All == [n \in 1 .. 9 |->
                  [x |-> (cell % GRID_WIDTH) + Offsets[((n - 1) % 3) + 1],
                   y |-> (cell \div GRID_WIDTH) + Offsets[((n - 1) \div 3) + 1]]]
    IN  SelectSeq(All, LAMBDA t : ~(t.x < 0 \/ t.x >= GRID_WIDTH \/
                                    t.y < 0 \/ t.y >= GRID_HEIGHT)
                                  /\ (t.y * GRID_WIDTH) + t.x # cell)

TargetCells(cell) ==
    LET All == [n \in 1 .. 9 |->
                  [x |-> (cell % GRID_WIDTH) + Offsets[((n - 1) % 3) + 1],
                   y |-> (cell \div GRID_WIDTH) + Offsets[((n - 1) \div 3) + 1]]]
    IN  SelectSeq(All, LAMBDA t : ~(t.x < 0 \/ t.x >= GRID_WIDTH \/
                                    t.y < 0 \/ t.y >= GRID_HEIGHT))

\* the fish indices read from s_fish_in_grid for predator i, in visiting order
RECURSIVE CandidatesIn(_, _, _)
CandidatesIn(cells, in_grid, counts) ==
    IF cells = << >> THEN << >>
    ELSE LET target_cell == (Head(cells).y * GRID_WIDTH) + Head(cells).x
         IN  [n \in 1 .. counts[target_cell] |-> in_grid[target_cell][n - 1]]
             \o CandidatesIn(Tail(cells), in_grid, counts)

\* EatOne with the bubbles put at the predator's position, not the prey's
EatOneBubblesAtPredator(st, i, j, k) ==
    IF j < MAX_FISH /\ st.fish[j].active /\ st.fish[j].size = 1
       /\ check_collision(st.fish[i].pos, 7, st.fish[j].pos, 4)
    THEN [fish |-> [st.fish EXCEPT ![j].active = FALSE],
          bubbles |-> CreateBubbles(st.bubbles, st.fish[i].pos, 0, 0, k,
                                    Site.eat_size, Site.eat_speed, 2)]
    ELSE st

\* the innermost test of the collision loop for predator i and candidate j;
\* st is [fish, bubbles]
EatOne(st, i, j, k) ==
    IF j < MAX_FISH /\ st.fish[j].active /\ st.fish[j].size = 1
       /\ check_collision(st.fish[i].pos, 7, st.fish[j].pos, 4)
    THEN [fish |-> [st.fish EXCEPT ![j].active = FALSE],
          bubbles |-> CreateBubbles(st.bubbles, st.fish[j].pos, 0, 0, k,
                                    Site.eat_size, Site.eat_speed, 2)]
    ELSE st

RECURSIVE EatAll(_, _, _, _)
EatAll(st, i, cands, k) ==
    IF cands = << >> THEN st
    ELSE EatAll(EatOne(st, i, Head(cands), k), i, Tail(cands), k)

\* the body of the collision loop for one i
PredatorPass(st, i, in_grid, counts, k) ==
    IF ~st.fish[i].active \/ st.fish[i].size <= 1 THEN st
    ELSE EatAll(st, i, CandidatesIn(TargetCells(st.fish[i].grid_cell), in_grid, counts), k)

RECURSIVE CollideFrom(_, _, _, _, _)
CollideFrom(st, i, in_grid, counts, k) ==
    IF i >= MAX_FISH + MAX_BIG_FISH THEN st
    ELSE CollideFrom(PredatorPass(st, i, in_grid, counts, k), i + 1, in_grid, counts, k)

\* second loop: big fish eat the small fish the grid puts next to them
FishCollisions(fish, bubbles, in_grid, counts, k) ==
    CollideFrom([fish |-> fish, bubbles |-> bubbles], 0, in_grid, counts, k)

\* third loop: an inactive small fish is reinitialised with chance 2 in 100
Respawns(fish, k) ==
    {i \in SmallIdx : ~fish[i].active
                      /\ random_in_range(0, 99, Rand(k, Site.respawn, i)) < 2}

\* RespawnFish reinitialising the slot as a big fish
RespawnFishAsBig(fish, k) ==
    [i \in FishIdx |-> IF i \in Respawns(fish, k)
                       THEN init_fish(fish[i], 2, k, i + MAX_FISH + MAX_BIG_FISH)
                       ELSE fish[i]]

RespawnFish(fish, k) ==
    [i \in FishIdx |-> IF i \in Respawns(fish, k)
                       THEN init_fish(fish[i], 1, k, i + MAX_FISH + MAX_BIG_FISH)
                       ELSE fish[i]]

\* UpdateSeaweed without the reduction modulo TRIG_MAX_ANGLE
UpdateSeaweedNoWrap(seaweed) ==
    [i \in SeaweedIdx |->
        [seaweed[i] EXCEPT !.offset = @ + (seaweed[i].speed * 100)]]

UpdateSeaweed(seaweed) ==
    [i \in SeaweedIdx |->
        [seaweed[i] EXCEPT !.offset = (@ + (seaweed[i].speed * 100)) % TRIG_MAX_ANGLE]]

\* UpdateOneBubble starting a new bubble in the slot it has just emptied
UpdateOneBubbleRefills(b, k, i) ==
    IF b.active
    THEN LET b1 == [b EXCEPT !.pos.y = @ - b.speed]
             b2 == IF random_in_range(0, 2, Rand(k, Site.wobble, i)) = 0
                   THEN [b1 EXCEPT !.pos.x = @ + random_in_range(-1, 1, Rand(k, Site.wobble_dx, i))]
                   ELSE b1
         IN  IF b2.pos.y < 0 THEN init_bubble(k, i) ELSE b2
    ELSE IF random_in_range(0, 199, Rand(k, Site.bubble_spawn, i)) < 2
         THEN init_bubble(k, i)
         ELSE b

UpdateOneBubble(b, k, i) ==
    IF b.active
    THEN LET b1 == [b EXCEPT !.pos.y = @ - b.speed]
             b2 == IF random_in_range(0, 2, Rand(k, Site.wobble, i)) = 0
                   THEN [b1 EXCEPT !.pos.x = @ + random_in_range(-1, 1, Rand(k, Site.wobble_dx, i))]
                   ELSE b1
         IN  IF b2.pos.y < 0 THEN [b2 EXCEPT !.active = FALSE] ELSE b2
    ELSE IF random_in_range(0, 199, Rand(k, Site.bubble_spawn, i)) < 2
         THEN init_bubble(k, i)
         ELSE b

UpdateBubbles(bubbles, k) == [i \in BubbleIdx |-> UpdateOneBubble(bubbles[i], k, i)]

\* Clamp without the upper limit
ClampLowOnly(v, lo, hi) == IF v < lo THEN lo ELSE v

Clamp(v, lo, hi) == IF v < lo THEN lo ELSE IF v > hi THEN hi ELSE v

\* UpdateOnePlankton deactivating a plankton in the step in which it drifts
UpdateOnePlanktonExpires(p, k, i) ==
    IF p.active
    THEN IF random_in_range(0, 3, Rand(k, Site.drift, i)) = 0
         THEN [p EXCEPT !.active = FALSE]
         ELSE [p EXCEPT !.pos.x = Clamp(@, 0, 144), !.pos.y = Clamp(@, 0, 168)]
    ELSE IF random_in_range(0, 199, Rand(k, Site.plankton_spawn, i)) < 3
         THEN init_plankton(k, i)
         ELSE p

UpdateOnePlankton(p, k, i) ==
    IF p.active
    THEN LET p1 == IF random_in_range(0, 3, Rand(k, Site.drift, i)) = 0
                   THEN [p EXCEPT !.pos.x = @ + random_in_range(-1, 1, Rand(k, Site.drift_dx, i)),
                                  !.pos.y = @ + random_in_range(-1, 1, Rand(k, Site.drift_dy, i))]
                   ELSE p
         IN  [p1 EXCEPT !.pos.x = Clamp(@, 0, 144), !.pos.y = Clamp(@, 0, 168)]
    ELSE IF random_in_range(0, 199, Rand(k, Site.plankton_spawn, i)) < 3
         THEN init_plankton(k, i)
         ELSE p

UpdatePlankton(plankton, k) == [i \in PlanktonIdx |-> UpdateOnePlankton(plankton[i], k, i)]

update_turtle(turtle, k, i) ==
    LET t == [turtle EXCEPT !.pos.x = @ + (turtle.direction * turtle.speed),
                            !.animation_offset = (@ + (turtle.speed * 200)) % TRIG_MAX_ANGLE]
    IN  IF (t.direction = 1 /\ t.pos.x > 144) \/ (t.direction = -1 /\ t.pos.x < -15)
        THEN init_turtle(k, i)
        ELSE t

\* whether update_turtle reinitialises the turtle
TurtleReinit(turtle) ==
    LET nx == turtle.pos.x + (turtle.direction * turtle.speed)
    IN  (turtle.direction = 1 /\ nx > 144) \/ (turtle.direction = -1 /\ nx < -15)

update_jellyfish(jellyfish, k, i) ==
    LET j1 == [jellyfish EXCEPT
                  !.tentacle_offset = (@ + (jellyfish.speed * 100)) % TRIG_MAX_ANGLE,
                  !.pulse_state = (@ + 1) % 100]
        j2 == IF j1.pulse_state = 50
              THEN [j1 EXCEPT !.pos.y = IF @ - 2 < 60 THEN 60 ELSE @ - 2]
              ELSE j1
    IN  IF random_in_range(0, 19, Rand(k, Site.jelly_move, i)) = 0
        THEN [j2 EXCEPT !.pos.x =
                 Clamp(@ + random_in_range(-1, 1, Rand(k, Site.jelly_dx, i)), 10, 134)]
        ELSE j2

update_octopus(octopus, k) ==
    LET o1 == [octopus EXCEPT
                  !.tentacle_offset = (@ + (octopus.speed * 50)) % TRIG_MAX_ANGLE]
    IN  IF random_in_range(0, 9, Rand(k, Site.octopus_move, 0)) = 0
        THEN [o1 EXCEPT !.pos.x =
                 Clamp(@ + random_in_range(-1, 1, Rand(k, Site.octopus_dx, 0)), 10, 134)]
        ELSE o1

\* the shark's range test: abs(dx) < 20 && abs(dy) < 12
shark_in_range(shark_pos, fish_pos) ==
    /\ abs(shark_pos.x - fish_pos.x) < 20
    /\ abs(shark_pos.y - fish_pos.y) < 12

\* SharkEatOne with the cap one higher: fish_eaten < 3 for fish_eaten < 2
SharkEatOneCapThree(st, shark, i, k) ==
    IF st.fish_eaten < 3 /\ st.fish[i].active
       /\ shark_in_range(shark.pos, st.fish[i].pos)
    THEN [fish |-> [st.fish EXCEPT ![i].active = FALSE],
          bubbles |-> CreateBubbles(st.bubbles, st.fish[i].pos, 0, 0, k,
                                    Site.shark_eat_size, Site.shark_eat_speed, 3),
          fish_eaten |-> st.fish_eaten + 1]
    ELSE st

\* the shark's test for fish i; st is [fish, bubbles, fish_eaten]
SharkEatOne(st, shark, i, k) ==
    IF st.fish_eaten < 2 /\ st.fish[i].active
       /\ shark_in_range(shark.pos, st.fish[i].pos)
    THEN [fish |-> [st.fish EXCEPT ![i].active = FALSE],
          bubbles |-> CreateBubbles(st.bubbles, st.fish[i].pos, 0, 0, k,
                                    Site.shark_eat_size, Site.shark_eat_speed, 3),
          fish_eaten |-> st.fish_eaten + 1]
    ELSE st

RECURSIVE SharkEatFrom(_, _, _, _)
SharkEatFrom(st, shark, i, k) ==
    IF i >= MAX_FISH + MAX_BIG_FISH THEN st
    ELSE SharkEatFrom(SharkEatOne(st, shark, i, k), shark, i + 1, k)

\* UpdateShark waking the shark one step late: timer < 0 for timer <= 0
UpdateSharkWakesLate(shark, fish, bubbles, k) ==
    IF shark.active
    THEN LET moved == [shark EXCEPT !.pos.x = @ + (shark.direction * shark.speed)]
             eaten == SharkEatFrom([fish |-> fish, bubbles |-> bubbles, fish_eaten |-> 0],
                                   moved, 0, k)
             gone == (moved.direction = 1 /\ moved.pos.x > 174)
                     \/ (moved.direction = -1 /\ moved.pos.x < -30)
         IN  [shark |-> IF gone
                        THEN [moved EXCEPT !.active = FALSE,
                                           !.timer = random_in_range(200, 500,
                                                        Rand(k, Site.shark_cooldown, 0))]
                        ELSE moved,
              fish |-> eaten.fish, bubbles |-> eaten.bubbles]
    ELSE LET counted == [shark EXCEPT !.timer = @ - 1]
         IN  [shark |-> IF counted.timer < 0
                        THEN [init_shark(k) EXCEPT !.active = TRUE]
                        ELSE counted,
              fish |-> fish, bubbles |-> bubbles]

\* UpdateShark sending the shark to sleep on the exit edge, not beyond it:
\* >= 174 and <= -30 for > 174 and < -30
UpdateSharkSleepsEarly(shark, fish, bubbles, k) ==
    IF shark.active
    THEN LET moved == [shark EXCEPT !.pos.x = @ + (shark.direction * shark.speed)]
             eaten == SharkEatFrom([fish |-> fish, bubbles |-> bubbles, fish_eaten |-> 0],
                                   moved, 0, k)
             gone == (moved.direction = 1 /\ moved.pos.x >= 174)
                     \/ (moved.direction = -1 /\ moved.pos.x <= -30)
         IN  [shark |-> IF gone
                        THEN [moved EXCEPT !.active = FALSE,
                                           !.timer = random_in_range(200, 500,
                                                        Rand(k, Site.shark_cooldown, 0))]
                        ELSE moved,
              fish |-> eaten.fish, bubbles |-> eaten.bubbles]
    ELSE LET counted == [shark EXCEPT !.timer = @ - 1]
         IN  [shark |-> IF counted.timer <= 0
                        THEN [init_shark(k) EXCEPT !.active = TRUE]
                        ELSE counted,
              fish |-> fish, bubbles |-> bubbles]

\* the shark block of animation_update; the result is [shark, fish, bubbles]
UpdateShark(shark, fish, bubbles, k) ==
    IF shark.active
    THEN LET moved == [shark EXCEPT !.pos.x = @ + (shark.direction * shark.speed)]
             eaten == SharkEatFrom([fish |-> fish, bubbles |-> bubbles, fish_eaten |-> 0],
                                   moved, 0, k)
             gone == (moved.direction = 1 /\ moved.pos.x > 174)
                     \/ (moved.direction = -1 /\ moved.pos.x < -30)
         IN  [shark |-> IF gone
                        THEN [moved EXCEPT !.active = FALSE,
                                           !.timer = random_in_range(200, 500,
                                                        Rand(k, Site.shark_cooldown, 0))]
                        ELSE moved,
              fish |-> eaten.fish, bubbles |-> eaten.bubbles]
    ELSE LET counted == [shark EXCEPT !.timer = @ - 1]
         IN  [shark |-> IF counted.timer <= 0
                        THEN [init_shark(k) EXCEPT !.active = TRUE]
                        ELSE counted,
              fish |-> fish, bubbles |-> bubbles]

update_seahorse(seahorse) ==
    [seahorse EXCEPT !.curve_state = (@ + 1) % TRIG_MAX_ANGLE, !.active = TRUE]

\* update_crab turning at the left edge of the screen instead of x = 15
update_crab_turns_at_zero(crab) ==
    LET c == [crab EXCEPT !.pos.x = @ + (crab.direction * crab.speed),
                          !.claw_state = (@ + 1) % 20]
    IN  IF c.pos.x <= 0 \/ c.pos.x >= 130 THEN [c EXCEPT !.direction = @ * (-1)] ELSE c

update_crab(crab) ==
    LET c == [crab EXCEPT !.pos.x = @ + (crab.direction * crab.speed),
                          !.claw_state = (@ + 1) % 20]
    IN  IF c.pos.x <= 15 \/ c.pos.x >= 130 THEN [c EXCEPT !.direction = @ * (-1)] ELSE c

update_clam(clam, k) ==
    IF clam.open_state > 0 THEN [clam EXCEPT !.open_state = @ - 1]
    ELSE IF random_in_range(0, 399, Rand(k, Site.clam_open, 0)) = 0
         THEN [clam EXCEPT !.open_state = 40]
         ELSE clam

\* animation_update() on the pools sc, with rand() stream k.  The result holds
\* the pools after the step, and the intermediate values moved (the fish after
\* the first loop and update_spatial_grid) and collided (the fish after the
\* second loop).
animation_update(sc, k) ==
    LET f1 == MoveFish(sc.fish, k)
        g == update_spatial_grid(f1, sc.in_grid)
        c == FishCollisions(g.fish, sc.bubbles, g.in_grid, g.counts, k)
        f3 == RespawnFish(c.fish, k)
        b2 == UpdateBubbles(c.bubbles, k)
        sh == UpdateShark(sc.shark, f3, b2, k)
    IN  [fish |-> sh.fish,
         seaweed |-> UpdateSeaweed(sc.seaweed),
         bubbles |-> sh.bubbles,
         plankton |-> UpdatePlankton(sc.plankton, k),
         octopus |-> update_octopus(sc.octopus, k),
         turtles |-> [i \in 0 .. (MAX_TURTLES - 1) |-> update_turtle(sc.turtles[i], k, i)],
         jellyfish |-> [i \in 0 .. (MAX_JELLYFISH - 1) |-> update_jellyfish(sc.jellyfish[i], k, i)],
         shark |-> sh.shark,
         seahorse |-> update_seahorse(sc.seahorse),
         crab |-> update_crab(sc.crab),
         clam |-> update_clam(sc.clam, k),
         in_grid |-> g.in_grid,
         counts |-> g.counts,
         moved |-> g.fish,
         collided |-> c.fish,
         pre_shark_bubbles |-> b2,
         pre_shark_fish |-> f3,
         shark_active |-> sc.shark.active,
         reinit |-> MoveReinit(sc.fish) \cup Respawns(c.fish, k),
         turtle_reinit |-> {i \in 0 .. (MAX_TURTLES - 1) : TurtleReinit(sc.turtles[i])}]

(***************************************************************************)
(* State                                                                   *)
(***************************************************************************)
VARIABLES
    \* the entity pools and the spatial grid
    s_fish, s_seaweed, s_bubbles, s_plankton, s_octopus, s_turtles, s_jellyfish,
    s_shark, s_seahorse, s_crab, s_clam, s_fish_in_grid, s_fish_grid_counts,
    \* the UI handles: TRUE is a non-NULL pointer
    s_main_window, s_canvas_layer, s_time_layer, s_date_layer, s_battery_layer,
    \* the six GPath pointers, by name
    s_path,
    \* the timer handle (NULL or a timer id) and the battery state
    s_animation_timer, s_battery_level, s_is_charging,
    \* the minute shown by the time layer
    s_time_buffer,
    \* the host: where main() is, the window, the pending timers, the next
    \* timer id, the timers delivered and cancelled so far, the battery, the
    \* create and destroy calls per object, the dirty layers
    pc, window, timers, next_timer, fired, cancelled, battery,
    created, destroyed, dirty,
    \* bookkeeping: ticks run, the app_timer_register calls of the last handler
    \* that armed the timer, and what the last animation_update did
    ticks, requests, step,
    \* one call of random_in_range: its arguments, the value rand() returns in
    \* it, and its result
    sample,
    \* one call of another function of the program: its name, its arguments,
    \* whether it has returned, and its result
    probe,
    \* the six shape point buffers, and the draw_* calls of the last redraw in
    \* the order they were made
    s_points, drawn

sim_vars == <<s_fish, s_seaweed, s_bubbles, s_plankton, s_octopus, s_turtles,
              s_jellyfish, s_shark, s_seahorse, s_crab, s_clam, s_fish_in_grid,
              s_fish_grid_counts, step>>

layer_vars == <<s_canvas_layer, s_time_layer, s_date_layer, s_battery_layer>>

draw_vars == <<s_points, drawn>>

vars == <<s_fish, s_seaweed, s_bubbles, s_plankton, s_octopus, s_turtles, s_jellyfish,
          s_shark, s_seahorse, s_crab, s_clam, s_fish_in_grid, s_fish_grid_counts,
          s_main_window, s_canvas_layer, s_time_layer, s_date_layer, s_battery_layer,
          s_path, s_animation_timer, s_battery_level, s_is_charging, s_time_buffer,
          pc, window, timers, next_timer, fired, cancelled, battery,
          created, destroyed, dirty, ticks, requests, step, sample, probe,
          s_points, drawn>>

PathNames == {"s_fish_tail_path", "s_turtle_front_flipper_path",
              "s_turtle_back_flipper_path", "s_shark_body_path",
              "s_shark_tail_path", "s_shark_fin_path"}

LayerNames == {"s_canvas_layer", "s_time_layer", "s_date_layer", "s_battery_layer"}

ObjectNames == PathNames \cup LayerNames \cup {"s_main_window"}

\* the battery states the host reports
BatteryStates == {[charge_percent |-> 15, is_charging |-> FALSE],
                  [charge_percent |-> 15, is_charging |-> TRUE],
                  [charge_percent |-> 20, is_charging |-> FALSE],
                  [charge_percent |-> 21, is_charging |-> FALSE]}

\* the subsets of the six gpath_create calls that return NULL
PathFailures == {{}, {"s_shark_body_path", "s_shark_fin_path"}}

\* objects in static storage are zero before main_window_load fills them
ZeroPoint == [x |-> 0, y |-> 0]

ZeroFish == [pos |-> ZeroPoint, direction |-> 0, speed |-> 0, active |-> FALSE,
             size |-> 0, grid_cell |-> 0]

ZeroBubble == [pos |-> ZeroPoint, size |-> 0, speed |-> 0, active |-> FALSE]

ZeroPlankton == [pos |-> ZeroPoint, direction |-> 0, speed |-> 0, active |-> FALSE]

ZeroScene ==
    [fish |-> [i \in FishIdx |-> ZeroFish],
     seaweed |-> [i \in SeaweedIdx |-> [base |-> ZeroPoint, offset |-> 0, speed |-> 0]],
     bubbles |-> [i \in BubbleIdx |-> ZeroBubble],
     plankton |-> [i \in PlanktonIdx |-> ZeroPlankton],
     octopus |-> [pos |-> ZeroPoint, direction |-> 0, tentacle_offset |-> 0, speed |-> 0],
     turtles |-> [i \in 0 .. (MAX_TURTLES - 1) |->
                     [pos |-> ZeroPoint, direction |-> 0, animation_offset |-> 0, speed |-> 0]],
     jellyfish |-> [i \in 0 .. (MAX_JELLYFISH - 1) |->
                     [pos |-> ZeroPoint, tentacle_offset |-> 0, pulse_state |-> 0, speed |-> 0]],
     shark |-> [pos |-> ZeroPoint, direction |-> 0, jaw_state |-> 0, speed |-> 0,
                active |-> FALSE, timer |-> 0],
     seahorse |-> [pos |-> ZeroPoint, curve_state |-> 0, active |-> FALSE, timer |-> 0],
     crab |-> [pos |-> ZeroPoint, direction |-> 0, claw_state |-> 0, speed |-> 0],
     clam |-> [pos |-> ZeroPoint, open_state |-> 0],
     in_grid |-> [c \in CellIdx |-> [n \in FishIdx |-> 0]],
     counts |-> [c \in CellIdx |-> 0]]

\* what the last animation_update did: the fish after its first loop and the
\* grid rebuild, the fish after its second loop, the bubbles and the fish
\* before the shark block, whether the shark was active when the block began,
\* the fish and turtles it reinitialised, and the timer whose delivery ran it
NoStep == [moved |-> [i \in FishIdx |-> ZeroFish],
           collided |-> [i \in FishIdx |-> ZeroFish],
           pre_shark_bubbles |-> [i \in BubbleIdx |-> ZeroBubble],
           pre_shark_fish |-> [i \in FishIdx |-> ZeroFish],
           shark_active |-> FALSE,
           reinit |-> {}, turtle_reinit |-> {},
           timer |-> [id |-> NULL, interval |-> 0]]

\* no call of random_in_range is being looked at
NoSample == [min |-> 0, max |-> 0, rand |-> 0, done |-> FALSE, result |-> 0]

\* no call of another function is being looked at
NoProbe == [fn |-> "none", args |-> << >>, done |-> FALSE, result |-> 0]

\* the point buffers in static storage: s_shark_body_points has 5 points, the
\* others 3, indexed from 0
PointCount == [b \in {"s_fish_tail_points", "s_turtle_front_flipper_points",
                      "s_turtle_back_flipper_points", "s_shark_body_points",
                      "s_shark_tail_points", "s_shark_fin_points"} |->
                  IF b = "s_shark_body_points" THEN 5 ELSE 3]

ZeroPoints == [b \in DOMAIN PointCount |-> [n \in 0 .. (PointCount[b] - 1) |-> ZeroPoint]]

\* the pools as one record
Scene ==
    [fish |-> s_fish, seaweed |-> s_seaweed, bubbles |-> s_bubbles,
     plankton |-> s_plankton, octopus |-> s_octopus, turtles |-> s_turtles,
     jellyfish |-> s_jellyfish, shark |-> s_shark, seahorse |-> s_seahorse,
     crab |-> s_crab, clam |-> s_clam, in_grid |-> s_fish_in_grid,
     counts |-> s_fish_grid_counts]

\* the pools take the values of sc
SetScene(sc) ==
    /\ s_fish' = sc.fish
    /\ s_seaweed' = sc.seaweed
    /\ s_bubbles' = sc.bubbles
    /\ s_plankton' = sc.plankton
    /\ s_octopus' = sc.octopus
    /\ s_turtles' = sc.turtles
    /\ s_jellyfish' = sc.jellyfish
    /\ s_shark' = sc.shark
    /\ s_seahorse' = sc.seahorse
    /\ s_crab' = sc.crab
    /\ s_clam' = sc.clam
    /\ s_fish_in_grid' = sc.in_grid
    /\ s_fish_grid_counts' = sc.counts

\* the state at process start: static storage, no host object
ProcessStart ==
    /\ s_fish = ZeroScene.fish
    /\ s_seaweed = ZeroScene.seaweed
    /\ s_bubbles = ZeroScene.bubbles
    /\ s_plankton = ZeroScene.plankton
    /\ s_octopus = ZeroScene.octopus
    /\ s_turtles = ZeroScene.turtles
    /\ s_jellyfish = ZeroScene.jellyfish
    /\ s_shark = ZeroScene.shark
    /\ s_seahorse = ZeroScene.seahorse
    /\ s_crab = ZeroScene.crab
    /\ s_clam = ZeroScene.clam
    /\ s_fish_in_grid = ZeroScene.in_grid
    /\ s_fish_grid_counts = ZeroScene.counts
    /\ s_main_window = FALSE
    /\ s_canvas_layer = FALSE
    /\ s_time_layer = FALSE
    /\ s_date_layer = FALSE
    /\ s_battery_layer = FALSE
    /\ s_path = [p \in PathNames |-> FALSE]
    /\ s_animation_timer = NULL
    /\ s_battery_level = 100
    /\ s_is_charging = FALSE
    /\ s_time_buffer = 0
    /\ pc = "start"
    /\ window = "none"
    /\ timers = {}
    /\ next_timer = 1
    /\ fired = {}
    /\ cancelled = {}
    /\ battery \in BatteryStates
    /\ created = [o \in ObjectNames |-> 0]
    /\ destroyed = [o \in ObjectNames |-> 0]
    /\ dirty = {}
    /\ ticks = 0
    /\ requests = << >>
    /\ step = NoStep
    /\ s_points = ZeroPoints
    /\ drawn = << >>

\* the program starts with no call of random_in_range singled out
Init == ProcessStart /\ sample = NoSample /\ probe = NoProbe

(***************************************************************************)
(* Host calls                                                              *)
(***************************************************************************)
\* app_timer_register(interval, ...): ok is whether the host has a timer to
\* give; the result is the handle (NULL on failure) and the host's timers
app_timer_register(tm, nxt, interval, ok) ==
    IF ok THEN [handle |-> nxt,
                timers |-> tm \cup {[id |-> nxt, interval |-> interval]},
                next |-> nxt + 1]
          ELSE [handle |-> NULL, timers |-> tm, next |-> nxt]

\* app_timer_cancel leaving the timer pending
app_timer_cancel_keeps(tm, handle) == tm

\* app_timer_cancel(handle): the pending timer with that handle is dropped
app_timer_cancel(tm, handle) == {t \in tm : t.id # handle}

(***************************************************************************)
(* Handlers                                                                *)
(***************************************************************************)
\* the minute time(NULL) falls in, as the "%I:%M" text shows it
Minutes == {0, 1}

\* update_time() when time(NULL) reads minute now; lt is whether localtime()
\* returned a value
update_time(now, lt, time_layer, date_layer, buffer) ==
    IF ~lt THEN buffer
    ELSE IF ~time_layer \/ ~date_layer THEN buffer
    ELSE now

\* init(): window_create may fail, and then nothing else is set up
init ==
    /\ pc = "start"
    /\ pc' = "loop"
    /\ s_animation_timer' = NULL
    /\ \E ok \in BOOLEAN :
          IF ~ok
          THEN /\ s_main_window' = FALSE
               /\ UNCHANGED <<window, created, s_battery_level, s_is_charging>>
          ELSE /\ s_main_window' = TRUE
               /\ created' = [created EXCEPT !["s_main_window"] = @ + 1]
               /\ window' = "pushed"
               /\ s_battery_level' = battery.charge_percent
               /\ s_is_charging' = battery.is_charging
    /\ UNCHANGED <<sim_vars, layer_vars, s_path, s_time_buffer, timers, next_timer,
                   fired, cancelled, battery, destroyed, dirty, ticks, requests,
                   sample, probe, draw_vars>>

\* the pools as main_window_load fills them, with rand() stream k
LoadScene(sc, k) ==
    [fish |-> [i \in FishIdx |-> IF i < MAX_FISH THEN init_fish(sc.fish[i], 1, k, i)
                                                 ELSE init_fish(sc.fish[i], 2, k, i)],
     seaweed |-> [i \in SeaweedIdx |-> init_seaweed(20 + (i * 35), k, i)],
     bubbles |-> [i \in BubbleIdx |-> [sc.bubbles[i] EXCEPT !.active = FALSE]],
     plankton |-> [i \in PlanktonIdx |->
                     IF random_in_range(0, 2, Rand(k, Site.load_plankton, i)) = 0
                     THEN init_plankton(k, i)
                     ELSE [sc.plankton[i] EXCEPT !.active = FALSE]],
     octopus |-> init_octopus(k),
     turtles |-> [i \in 0 .. (MAX_TURTLES - 1) |-> init_turtle(k, i)],
     jellyfish |-> [i \in 0 .. (MAX_JELLYFISH - 1) |-> init_jellyfish(k, i)],
     shark |-> init_shark(k),
     seahorse |-> init_seahorse,
     crab |-> init_crab,
     clam |-> init_clam,
     in_grid |-> sc.in_grid,
     counts |-> sc.counts]

\* NextInterval with < for <= in the battery test
NextIntervalBelowThreshold(level, charging) ==
    IF level < LOW_BATTERY_THRESHOLD /\ ~charging THEN ANIMATION_INTERVAL_LOW_POWER
                                                  ELSE ANIMATION_INTERVAL

\* RetryInterval asking for the same period again
RetryIntervalSame(interval) == interval

\* the period animation_timer_callback asks for first
NextInterval(level, charging) ==
    IF level <= LOW_BATTERY_THRESHOLD /\ ~charging THEN ANIMATION_INTERVAL_LOW_POWER
                                                   ELSE ANIMATION_INTERVAL

\* the period of the second app_timer_register call: next_interval * 2 in
\* the callback, ANIMATION_INTERVAL * 2 in main_window_load
RetryInterval(interval) == interval * 2

\* the second app_timer_register call is made only when the first returned
\* NULL: the outcomes it can have after a first call with outcome ok1
SecondCall(ok1) == IF ok1 THEN {TRUE} ELSE BOOLEAN

\* main_window_load(): n is the number of layer creations that succeed before
\* one returns NULL (4: all succeed), failed the gpath_create calls that
\* return NULL, ok1 and ok2 the outcomes of the two app_timer_register calls
main_window_load ==
    /\ pc = "loop"
    /\ window = "pushed"
    /\ window' = "loaded"
    /\ \E n \in 0 .. 4 :
          /\ s_canvas_layer' = (n >= 1)
          /\ s_time_layer' = (n >= 2)
          /\ s_date_layer' = (n >= 3)
          /\ s_battery_layer' = (n >= 4)
          /\ IF n < 4
             THEN /\ created' = [o \in ObjectNames |->
                        IF \/ (o = "s_canvas_layer" /\ n >= 1)
                           \/ (o = "s_time_layer" /\ n >= 2)
                           \/ (o = "s_date_layer" /\ n >= 3)
                        THEN created[o] + 1 ELSE created[o]]
                  /\ UNCHANGED <<sim_vars, s_path, s_animation_timer, s_time_buffer,
                                 timers, next_timer, requests>>
             ELSE \E k \in Streams, failed \in PathFailures, ok1 \in BOOLEAN,
                     now \in Minutes, lt \in BOOLEAN : \E ok2 \in SecondCall(ok1) :
                     LET first == app_timer_register(timers, next_timer,
                                                     ANIMATION_INTERVAL, ok1)
                         second == app_timer_register(first.timers, first.next,
                                                      RetryInterval(ANIMATION_INTERVAL), ok2)
                     IN  /\ SetScene(LoadScene(Scene, k))
                         /\ step' = step
                         /\ s_path' = [p \in PathNames |-> p \notin failed]
                         /\ created' = [o \in ObjectNames |->
                               IF o \in LayerNames \/ (o \in PathNames /\ o \notin failed)
                               THEN created[o] + 1 ELSE created[o]]
                         /\ IF first.handle # NULL
                            THEN /\ s_animation_timer' = first.handle
                                 /\ timers' = first.timers
                                 /\ next_timer' = first.next
                                 /\ requests' = <<[interval |-> ANIMATION_INTERVAL,
                                                   ok |-> TRUE]>>
                            ELSE /\ s_animation_timer' = second.handle
                                 /\ timers' = second.timers
                                 /\ next_timer' = second.next
                                 /\ requests' = <<[interval |-> ANIMATION_INTERVAL,
                                                   ok |-> FALSE],
                                                  [interval |-> RetryInterval(ANIMATION_INTERVAL),
                                                   ok |-> ok2]>>
                         /\ s_time_buffer' = update_time(now, lt, TRUE, TRUE, s_time_buffer)
    /\ UNCHANGED <<s_main_window, s_battery_level, s_is_charging, pc, fired, cancelled,
                   battery, destroyed, dirty, ticks,
                   sample, probe, draw_vars>>

\* animation_timer_callback(): the host delivers the pending timer t; ok1 and
\* ok2 are the outcomes of the two app_timer_register calls
animation_timer_callback ==
    /\ pc = "loop"
    /\ ticks < MaxTicks
    /\ \E t \in timers, k \in Streams :
          LET r == animation_update(Scene, k)
              next_interval == NextInterval(s_battery_level, s_is_charging)
          IN  /\ fired' = fired \cup {t.id}
              /\ SetScene(r)
              /\ step' = [moved |-> r.moved, collided |-> r.collided,
                          pre_shark_bubbles |-> r.pre_shark_bubbles,
                          pre_shark_fish |-> r.pre_shark_fish,
                          shark_active |-> r.shark_active,
                          reinit |-> r.reinit, turtle_reinit |-> r.turtle_reinit,
                          timer |-> t]
              /\ dirty' = IF s_canvas_layer THEN dirty \cup {"s_canvas_layer"} ELSE dirty
              /\ \E ok1 \in BOOLEAN : \E ok2 \in SecondCall(ok1) :
                    LET new_timer == app_timer_register(timers \ {t}, next_timer,
                                                        next_interval, ok1)
                        second == app_timer_register(new_timer.timers, new_timer.next,
                                                     RetryInterval(next_interval), ok2)
                    IN  IF new_timer.handle # NULL
                        THEN /\ s_animation_timer' = new_timer.handle
                             /\ timers' = new_timer.timers
                             /\ next_timer' = new_timer.next
                             /\ requests' = <<[interval |-> next_interval, ok |-> TRUE]>>
                        ELSE /\ s_animation_timer' = second.handle
                             /\ timers' = second.timers
                             /\ next_timer' = second.next
                             /\ requests' = <<[interval |-> next_interval, ok |-> FALSE],
                                              [interval |-> RetryInterval(next_interval),
                                               ok |-> ok2]>>
    /\ ticks' = ticks + 1
    /\ UNCHANGED <<s_main_window, layer_vars, s_path, s_battery_level, s_is_charging,
                   s_time_buffer, pc, window, cancelled, battery, created, destroyed,
                   sample, probe, draw_vars>>

\* tick_handler(): the host clock reaches a new minute, now
tick_handler ==
    /\ pc = "loop"
    /\ window # "none"
    /\ \E now \in Minutes, lt \in BOOLEAN :
          s_time_buffer' = update_time(now, lt, s_time_layer, s_date_layer, s_time_buffer)
    /\ UNCHANGED <<sim_vars, s_main_window, layer_vars, s_path, s_animation_timer,
                   s_battery_level, s_is_charging, pc, window, timers, next_timer,
                   fired, cancelled, battery, created, destroyed, dirty, ticks, requests,
                   sample, probe, draw_vars>>

\* battery_callback marking the battery layer dirty without the test of the handle
battery_callback_unguarded ==
    /\ pc = "loop"
    /\ window # "none"
    /\ \E charge_state \in BatteryStates \ {battery} :
          /\ battery' = charge_state
          /\ s_battery_level' = charge_state.charge_percent
          /\ s_is_charging' = charge_state.is_charging
    /\ dirty' = dirty \cup {"s_battery_layer"}
    /\ UNCHANGED <<sim_vars, s_main_window, layer_vars, s_path, s_animation_timer,
                   s_time_buffer, pc, window, timers, next_timer, fired, cancelled,
                   created, destroyed, ticks, requests,
                   sample, probe, draw_vars>>

\* battery_callback re-arming the animation timer at the period of the new
\* battery state
battery_callback_rearms ==
    /\ pc = "loop"
    /\ window # "none"
    /\ \E charge_state \in BatteryStates \ {battery} :
          /\ battery' = charge_state
          /\ s_battery_level' = charge_state.charge_percent
          /\ s_is_charging' = charge_state.is_charging
          /\ timers' = {[t EXCEPT !.interval = NextInterval(charge_state.charge_percent,
                                                           charge_state.is_charging)] :
                           t \in timers}
    /\ dirty' = IF s_battery_layer THEN dirty \cup {"s_battery_layer"} ELSE dirty
    /\ UNCHANGED <<sim_vars, s_main_window, layer_vars, s_path, s_animation_timer,
                   s_time_buffer, pc, window, next_timer, fired, cancelled,
                   created, destroyed, ticks, requests,
                   sample, probe, draw_vars>>

\* battery_callback(charge_state): the host reports a battery state
battery_callback ==
    /\ pc = "loop"
    /\ window # "none"
    /\ \E charge_state \in BatteryStates \ {battery} :
          /\ battery' = charge_state
          /\ s_battery_level' = charge_state.charge_percent
          /\ s_is_charging' = charge_state.is_charging
    /\ dirty' = IF s_battery_layer THEN dirty \cup {"s_battery_layer"} ELSE dirty
    /\ UNCHANGED <<sim_vars, s_main_window, layer_vars, s_path, s_animation_timer,
                   s_time_buffer, pc, window, timers, next_timer, fired, cancelled,
                   created, destroyed, ticks, requests,
                   sample, probe, draw_vars>>

\* Teardown without the app_timer_cancel call
TeardownNoCancel ==
    /\ s_animation_timer' = NULL
    /\ timers' = timers
    /\ cancelled' = cancelled
    /\ s_path' = [p \in PathNames |-> FALSE]

\* Teardown leaving the path pointers set after gpath_destroy
TeardownKeepsPointers ==
    /\ s_animation_timer' = NULL
    /\ timers' = IF s_animation_timer # NULL
                 THEN app_timer_cancel(timers, s_animation_timer) ELSE timers
    /\ cancelled' = IF s_animation_timer # NULL
                    THEN cancelled \cup {s_animation_timer} ELSE cancelled
    /\ s_path' = s_path

\* the timer and path part shared by main_window_unload and deinit:
\* cancel the timer if the handle is set, destroy every path that is set
Teardown ==
    /\ s_animation_timer' = NULL
    /\ timers' = IF s_animation_timer # NULL
                 THEN app_timer_cancel(timers, s_animation_timer) ELSE timers
    /\ cancelled' = IF s_animation_timer # NULL
                    THEN cancelled \cup {s_animation_timer} ELSE cancelled
    /\ s_path' = [p \in PathNames |-> FALSE]

\* the objects named in live are destroyed once more
DestroyAll(live) ==
    destroyed' = [o \in ObjectNames |-> IF o \in live THEN destroyed[o] + 1
                                                      ELSE destroyed[o]]

LivePaths == {p \in PathNames : s_path[p]}

LiveLayers == {l \in LayerNames :
                 \/ (l = "s_canvas_layer" /\ s_canvas_layer)
                 \/ (l = "s_time_layer" /\ s_time_layer)
                 \/ (l = "s_date_layer" /\ s_date_layer)
                 \/ (l = "s_battery_layer" /\ s_battery_layer)}

\* main_window_unload(): the host removes the window while the loop runs
main_window_unload ==
    /\ pc = "loop"
    /\ window = "loaded"
    /\ window' = "unloaded"
    /\ Teardown
    /\ DestroyAll(LivePaths \cup LiveLayers)
    /\ s_canvas_layer' = FALSE
    /\ s_time_layer' = FALSE
    /\ s_date_layer' = FALSE
    /\ s_battery_layer' = FALSE
    /\ dirty' = {}
    /\ UNCHANGED <<sim_vars, s_main_window, s_battery_level, s_is_charging,
                   s_time_buffer, pc, next_timer, fired, battery, created,
                   ticks, requests,
                   sample, probe, draw_vars>>

\* app_event_loop() returns and deinit() runs; window_destroy calls the unload
\* handler of a window that is still loaded, after deinit's own cancelling and
\* destroying, so that call finds only the layers left to destroy
deinit ==
    /\ pc = "loop"
    /\ pc' = "exited"
    /\ Teardown
    /\ IF s_main_window
       THEN /\ s_main_window' = FALSE
            /\ IF window = "loaded"
               THEN /\ window' = "unloaded"
                    /\ DestroyAll(LivePaths \cup LiveLayers \cup {"s_main_window"})
                    /\ s_canvas_layer' = FALSE
                    /\ s_time_layer' = FALSE
                    /\ s_date_layer' = FALSE
                    /\ s_battery_layer' = FALSE
                    /\ dirty' = {}
               ELSE /\ DestroyAll(LivePaths \cup {"s_main_window"})
                    /\ UNCHANGED <<window, layer_vars, dirty>>
       ELSE /\ DestroyAll(LivePaths)
            /\ UNCHANGED <<s_main_window, window, layer_vars, dirty>>
    /\ UNCHANGED <<sim_vars, s_battery_level, s_is_charging, s_time_buffer,
                   next_timer, fired, battery, created, ticks, requests,
                   sample, probe, draw_vars>>

Next ==
    \/ init
    \/ main_window_load
    \/ animation_timer_callback
    \/ tick_handler
    \/ battery_callback
    \/ main_window_unload
    \/ deinit

Spec == Init /\ [][Next]_vars

(***************************************************************************)
(* Snapshots of a running scene                                            *)
(***************************************************************************)
Fish(x, y, d, sp, a, sz) ==
    [pos |-> [x |-> x, y |-> y], direction |-> d, speed |-> sp, active |-> a,
     size |-> sz, grid_cell |-> 0]

Bubble(x, y, sz, sp, a) == [pos |-> [x |-> x, y |-> y], size |-> sz, speed |-> sp, active |-> a]

Shark(x, y, d, a, t) ==
    [pos |-> [x |-> x, y |-> y], direction |-> d, jaw_state |-> 0, speed |-> 3,
     active |-> a, timer |-> t]

\* the big fish in slot MAX_FISH: next to the small fish heading right,
\* next to them heading left, or eaten by the shark
BigFishChoices == {Fish(50, 50, 1, 1, TRUE, 2), Fish(50, 50, -1, 2, TRUE, 2),
                   Fish(50, 50, 1, 1, FALSE, 2)}

\* small fish around (50,50), the one at (52,51) swimming the way the big
\* fish does, one eaten, one about to leave on the right; the second big fish
\* about to leave on the left
SceneFish(big) ==
    [i \in FishIdx |->
        CASE i = 0 -> Fish(60, 50, 1, 2, TRUE, 1)
          [] i = 1 -> IF big.direction = 1 THEN Fish(52, 51, 1, 2, TRUE, 1)
                                           ELSE Fish(52, 51, -1, 4, TRUE, 1)
          [] i = 2 -> Fish(66, 50, -1, 3, TRUE, 1)
          [] i = 3 -> Fish(30, 30, 1, 2, FALSE, 1)
          [] i = 4 -> Fish(143, 100, 1, 3, TRUE, 1)
          [] i = 5 -> big
          [] OTHER -> Fish(-10, 80, -1, 1, TRUE, 2)]

\* the shark: dormant with 1, 2 or 200 ticks to go, roaming next to the fish,
\* roaming with one step left before either exit edge, roaming at the exit edge
SharkChoices == {Shark(177, 60, 1, FALSE, 1), Shark(177, 60, 1, FALSE, 2),
                 Shark(-33, 70, -1, FALSE, 200),
                 Shark(48, 55, 1, TRUE, 150), Shark(171, 60, 1, TRUE, 299),
                 Shark(174, 60, 1, TRUE, 200), Shark(-30, 99, -1, TRUE, 150),
                 Shark(-27, 50, -1, TRUE, 150)}

\* the bubble pool: empty, full (two of them about to leave at the top), or
\* full but for slots 3 and 7
BubbleChoices ==
    {[i \in BubbleIdx |-> Bubble(0, 0, 0, 0, FALSE)],
     [i \in BubbleIdx |-> Bubble(10 + (i * 5), IF i < 2 THEN i ELSE 20 * i,
                                 1 + (i % 3), 1 + (i % 3), TRUE)],
     [i \in BubbleIdx |-> Bubble(10 + (i * 5), 20 * i, 1 + (i % 2), 1 + (i % 3),
                                 i \notin {3, 7})]}

\* the turtle: mid-screen, or one step before its exit edge
TurtleChoices ==
    {[pos |-> [x |-> 50, y |-> 70], direction |-> 1, animation_offset |-> 13000, speed |-> 1],
     [pos |-> [x |-> 144, y |-> 119], direction |-> 1, animation_offset |-> 31800, speed |-> 1],
     [pos |-> [x |-> -15, y |-> 60], direction |-> -1, animation_offset |-> 31800, speed |-> 1]}

\* the seaweed late in a run: stalk 0 one step before passing TRIG_MAX_ANGLE,
\* stalk 1 one step before reaching it exactly, stalk 2 at 0, stalk 3 at 1200;
\* the octopus, the jellyfish and the seahorse of InitSim are one step before
\* passing it as well
SceneSeaweed ==
    LET loaded == LoadScene(ZeroScene, 1).seaweed
    IN  [i \in SeaweedIdx |->
           [loaded[i] EXCEPT !.offset =
               CASE i = 0 -> TRIG_MAX_ANGLE - (loaded[i].speed * 100) + 64
                 [] i = 1 -> TRIG_MAX_ANGLE - (loaded[i].speed * 100)
                 [] i = 2 -> 0
                 [] OTHER -> 1200]]

\* the state of a loaded window with its animation timer pending, the pools
\* in one of the snapshots
InitSim ==
    /\ \E big \in BigFishChoices : s_fish = SceneFish(big)
    /\ s_seaweed = SceneSeaweed
    /\ s_bubbles \in BubbleChoices
    /\ s_plankton = LoadScene(ZeroScene, 1).plankton
    /\ s_octopus = [init_octopus(1) EXCEPT !.tentacle_offset = 65500]
    /\ \E t \in TurtleChoices : s_turtles = [i \in 0 .. (MAX_TURTLES - 1) |-> t]
    /\ s_jellyfish = [i \in 0 .. (MAX_JELLYFISH - 1) |->
                         [init_jellyfish(1, i) EXCEPT !.tentacle_offset = 65400]]
    /\ s_shark \in SharkChoices
    /\ s_seahorse = [init_seahorse EXCEPT !.curve_state = TRIG_MAX_ANGLE - 1]
    /\ s_crab = init_crab
    /\ s_clam = init_clam
    /\ s_fish_in_grid = ZeroScene.in_grid
    /\ s_fish_grid_counts = ZeroScene.counts
    /\ s_main_window = TRUE
    /\ s_canvas_layer = TRUE
    /\ s_time_layer = TRUE
    /\ s_date_layer = TRUE
    /\ s_battery_layer = TRUE
    /\ s_path = [p \in PathNames |-> TRUE]
    /\ s_animation_timer = 1
    /\ s_battery_level = 21
    /\ s_is_charging = FALSE
    /\ s_time_buffer = 0
    /\ pc = "loop"
    /\ window = "loaded"
    /\ timers = {[id |-> 1, interval |-> ANIMATION_INTERVAL]}
    /\ next_timer = 2
    /\ fired = {}
    /\ cancelled = {}
    /\ battery = [charge_percent |-> 21, is_charging |-> FALSE]
    /\ created = [o \in ObjectNames |-> 1]
    /\ destroyed = [o \in ObjectNames |-> 0]
    /\ dirty = {}
    /\ ticks = 0
    /\ requests = <<[interval |-> ANIMATION_INTERVAL, ok |-> TRUE]>>
    /\ step = NoStep
    /\ sample = NoSample
    /\ probe = NoProbe
    /\ s_points = ZeroPoints
    /\ drawn = << >>

NextSim == animation_timer_callback

SpecSim == InitSim /\ [][NextSim]_vars

(***************************************************************************)
(* The big-fish collision phase                                            *)
(***************************************************************************)
\* the collision loop of the mid variant, run on the fish after movement: for
\* every big fish i, every small fish j < MAX_FISH is tested
AllPairsEaten(fish) ==
    {j \in SmallIdx :
        /\ fish[j].active
        /\ fish[j].size = 1
        /\ \E i \in FishIdx : /\ fish[i].active
                              /\ fish[i].size > 1
                              /\ check_collision(fish[i].pos, 7, fish[j].pos, 4)}

\* the fish the second loop of the last step deactivated
GridEaten == {j \in FishIdx : step.moved[j].active /\ ~step.collided[j].active}

\* C1: the small fish deactivated by the big-fish collision phase of a step
\* are exactly the active small fish that collide, on the positions after
\* movement, with some active big fish: the search through the grid finds
\* what the all-pairs loop finds, however many fish one big fish eats
C1_GridFindsAllPairs == GridEaten = AllPairsEaten(step.moved)

\* a step in which one big fish has eaten two small fish and another active
\* small fish was out of reach
C1_Witness ==
    /\ ticks >= 1
    /\ \E i \in FishIdx :
          /\ step.moved[i].active
          /\ step.moved[i].size > 1
          /\ Cardinality({j \in GridEaten :
                             check_collision(step.moved[i].pos, 7,
                                             step.moved[j].pos, 4)}) >= 2
    /\ \E j \in SmallIdx : step.moved[j].active /\ step.collided[j].active

(***************************************************************************)
(* The shark                                                               *)
(***************************************************************************)
\* this step of the behaviour is one run of animation_update
IsStep == ticks' = ticks + 1

\* C2: a step that starts with the shark dormant and timer = 1 ends with the
\* shark active, its direction -1 or 1, x at the entry coordinate of that
\* direction (-30 for 1, 174 for -1) and y in 50 .. 99; a step that starts
\* with the shark dormant and timer > 1 changes nothing of the shark but the
\* timer, which goes down by one
C2_SharkWakes ==
    [][IsStep =>
          /\ (~s_shark.active /\ s_shark.timer = 1) =>
                /\ s_shark'.active
                /\ s_shark'.direction \in {-1, 1}
                /\ s_shark'.pos.x = (IF s_shark'.direction = 1 THEN -30 ELSE 174)
                /\ s_shark'.pos.y \in 50 .. 99
          /\ (~s_shark.active /\ s_shark.timer > 1) =>
                s_shark' = [s_shark EXCEPT !.timer = @ - 1]]_vars

\* the shark has just woken on the right edge, swimming left; a roaming shark
\* moves by 3 a step and started elsewhere, so only a wake-up puts it there
C2_Witness ==
    /\ ticks >= 1
    /\ s_shark.active
    /\ s_shark.direction = -1
    /\ s_shark.pos.x = 174
    /\ s_shark.pos.y \in 50 .. 99

\* C3: the shark goes from active to dormant only in a step in which its x,
\* advanced by 3 * direction, is beyond the edge opposite its entry edge
\* (> 174 for direction 1, < -30 for direction -1), and that step stores a
\* cooldown in 200 .. 500 in timer; y and direction of a shark that is active
\* before and after a step of the behaviour are the same
C3_SharkSleeps ==
    [][/\ (s_shark.active /\ ~s_shark'.active) =>
             /\ IsStep
             /\ LET x == s_shark.pos.x + (3 * s_shark.direction)
                IN  \/ (s_shark.direction = 1 /\ x > 174)
                    \/ (s_shark.direction = -1 /\ x < -30)
             /\ s_shark'.timer \in 200 .. 500
       /\ (s_shark.active /\ s_shark'.active) =>
             /\ s_shark'.pos.y = s_shark.pos.y
             /\ s_shark'.direction = s_shark.direction]_vars

\* the shark has just passed the right edge and sleeps with a fresh cooldown
C3_Witness ==
    /\ ticks >= 1
    /\ ~s_shark.active
    /\ s_shark.direction = 1
    /\ s_shark.pos.x = 177
    /\ s_shark.timer \in 200 .. 500

(***************************************************************************)
(* The eating scenario                                                     *)
(***************************************************************************)
\* an active big fish i at (50,50) and an active small fish j at (52,51)
ScenarioAt(i, j) ==
    /\ s_fish[i].active
    /\ s_fish[i].size > 1
    /\ s_fish[i].pos = [x |-> 50, y |-> 50]
    /\ j \in SmallIdx
    /\ s_fish[j].active
    /\ s_fish[j].size = 1
    /\ s_fish[j].pos = [x |-> 52, y |-> 51]

\* C4 as stated: a step that starts with an active big fish at (50,50) and
\* an active small fish at (52,51) ends with the small fish inactive and with
\* a bubble slot, inactive before the step, active at (52,51)
C4_AsStated ==
    [][\A i \in FishIdx, j \in SmallIdx :
          (IsStep /\ ScenarioAt(i, j)) =>
             /\ ~s_fish'[j].active
             /\ \E b \in BubbleIdx : /\ ~s_bubbles[b].active
                                     /\ s_bubbles'[b].active
                                     /\ s_bubbles'[b].pos = [x |-> 52, y |-> 51]]_vars

\* C4, as the code has it: the fish move before the collisions are tested and
\* the bubbles rise after they are made.  A step that starts with an active
\* big fish at (50,50) and an active small fish at (52,51) deactivates the
\* small fish in its collision phase; at the end of the step the small fish
\* is inactive unless the respawn draw of the same step has put it back at an
\* entry edge; and if the bubble slots inactive before the step are more than
\* three for every other small fish eaten in that collision phase, a slot
\* that was inactive is active at the end, one bubble update away from the
\* place the small fish had moved to: y = 51 - speed with speed 1 or 2, x
\* within 1 of 52 + direction * speed of the fish
C4_EatenAfterMoving ==
    [][\A i \in FishIdx, j \in SmallIdx :
          (IsStep /\ ScenarioAt(i, j)) =>
             LET x == 52 + (s_fish[j].direction * s_fish[j].speed)
             IN  /\ step'.moved[j].active
                 /\ step'.moved[j].pos = [x |-> x, y |-> 51]
                 /\ ~step'.collided[j].active
                 /\ \/ ~s_fish'[j].active
                    \/ (j \in step'.reinit /\ s_fish'[j].pos.x \in {-10, 144})
                 /\ (Cardinality({b \in BubbleIdx : ~s_bubbles[b].active})
                        > 3 * (Cardinality({e \in SmallIdx : step'.moved[e].active
                                              /\ ~step'.collided[e].active}) - 1)) =>
                       \E b \in BubbleIdx :
                          /\ ~s_bubbles[b].active
                          /\ s_bubbles'[b].active
                          /\ s_bubbles'[b].speed \in 1 .. 2
                          /\ s_bubbles'[b].pos.y = 51 - s_bubbles'[b].speed
                          /\ s_bubbles'[b].pos.x \in (x - 1) .. (x + 1)]_vars

\* the step of the scenario has run from a pool with free bubble slots: the
\* small fish had moved from (52,51) to (54,51), the big fish from (50,50)
\* along y = 50, the small fish was eaten after another one, and a bubble of
\* the event is one update above (54,51)
C4_Witness ==
    /\ ticks = 1
    /\ step.moved[1].pos = [x |-> 54, y |-> 51]
    /\ ~step.collided[0].active
    /\ \E i \in FishIdx : /\ step.moved[i].active
                          /\ step.moved[i].size > 1
                          /\ step.moved[i].pos \in {[x |-> 51, y |-> 50], [x |-> 48, y |-> 50]}
    /\ ~step.collided[1].active
    /\ \E b \in BubbleIdx : /\ s_bubbles[b].active
                            /\ s_bubbles[b].pos.y \in {49, 50}
                            /\ s_bubbles[b].pos.x \in 53 .. 55

(***************************************************************************)
(* Teardown and the animation timer                                        *)
(***************************************************************************)
\* main_window_unload or deinit has run
TornDown == window = "unloaded" \/ pc = "exited"

\* C5: once main_window_unload or deinit has run no animation_timer_callback
\* runs again: the teardown leaves no timer pending, and from then on no
\* timer is delivered and no step is run, whatever the order of the timer,
\* battery, minute and unload events before it
C5_NoCallbackAfterTeardown ==
    [][/\ TornDown' => timers' = {}
       /\ TornDown => (fired' = fired /\ ticks' = ticks)]_vars

\* the window was unloaded while the loop runs, after a tick, and the timer
\* that was pending then has been cancelled
C5_Witness ==
    /\ window = "unloaded"
    /\ pc = "loop"
    /\ ticks >= 1
    /\ cancelled # {}
    /\ cancelled \cap fired = {}

\* C6: each of the six paths is created at most once, is never destroyed more
\* often than it was created, and once main_window_unload or deinit has run it
\* has been destroyed exactly as often as it was created: once if
\* main_window_load created it, never if main_window_load returned early or
\* its gpath_create returned NULL
C6_PathsDestroyedOnce ==
    \A p \in PathNames :
        /\ created[p] <= 1
        /\ destroyed[p] <= created[p]
        /\ TornDown => destroyed[p] = created[p]

\* main_window_unload ran and then deinit: the paths that were created are
\* destroyed once, and one whose gpath_create returned NULL never
C6_Witness ==
    /\ pc = "exited"
    /\ window = "unloaded"
    /\ s_animation_timer = NULL
    /\ destroyed["s_main_window"] = 1
    /\ created["s_fish_tail_path"] = 1
    /\ destroyed["s_fish_tail_path"] = 1
    /\ created["s_shark_fin_path"] = 0
    /\ destroyed["s_shark_fin_path"] = 0

(***************************************************************************)
(* Arming the animation timer                                              *)
(***************************************************************************)
\* this step of the behaviour is a main_window_load that reaches its
\* app_timer_register call
IsFullLoad == window = "pushed" /\ window' = "loaded" /\ s_battery_layer'

\* the timers pending after a handler whose last app_timer_register call is q
PendingAfter(q) ==
    IF q.ok THEN /\ s_animation_timer' # NULL
                 /\ timers' = {[id |-> s_animation_timer', interval |-> q.interval]}
            ELSE /\ s_animation_timer' = NULL
                 /\ timers' = {}

\* C7: animation_timer_callback first asks for 50 or 100 ms, by the battery
\* state it has stored, whatever the period of the timer that fired, and
\* main_window_load first asks for 50 ms; if that call succeeds it is the only
\* one; if it fails exactly one more call is made, for twice that period, and
\* the timer left pending is the one of the last call
C7_RetryAtDoublePeriod ==
    [][(IsStep \/ IsFullLoad) =>
          LET chosen == IF IsFullLoad THEN 50
                        ELSE IF s_battery_level <= 20 /\ ~s_is_charging THEN 100
                        ELSE 50
          IN  /\ Len(requests') \in 1 .. 2
              /\ requests'[1].interval = chosen
              /\ requests'[1].ok <=> Len(requests') = 1
              /\ Len(requests') = 2 => requests'[2].interval = 2 * chosen
              /\ PendingAfter(requests'[Len(requests')])]_vars

\* a timer armed at the doubled low-power period has fired, and the callback
\* it ran has armed the next one at 100 ms
C7_Witness ==
    /\ ticks = 2
    /\ step.timer.interval = 200
    /\ requests = <<[interval |-> 100, ok |-> TRUE]>>
    /\ \E t \in timers : t.interval = 100

\* C8: when animation_timer_callback re-arms and its first registration
\* succeeds, the period asked for is ANIMATION_INTERVAL_LOW_POWER if the
\* battery state the host delivered last has charge_percent <= 20 and is not
\* charging, and ANIMATION_INTERVAL otherwise
C8_LowPowerPeriod ==
    [][(IsStep /\ requests'[1].ok) =>
          /\ requests'[1].interval =
                (IF battery.charge_percent <= 20 /\ ~battery.is_charging
                 THEN ANIMATION_INTERVAL_LOW_POWER ELSE ANIMATION_INTERVAL)
          /\ \E t \in timers' : t.interval = requests'[1].interval]_vars

\* the host has reported 15 % and not charging, and the callback
\* has armed the timer at 100 ms
C8_Witness ==
    /\ ticks >= 1
    /\ battery = [charge_percent |-> 15, is_charging |-> FALSE]
    /\ s_battery_level = 15
    /\ ~s_is_charging
    /\ requests = <<[interval |-> ANIMATION_INTERVAL_LOW_POWER, ok |-> TRUE]>>
    /\ \E t \in timers : t.interval = ANIMATION_INTERVAL_LOW_POWER

(***************************************************************************)
(* Re-entry                                                                *)
(***************************************************************************)
\* C9: a fish reinitialised during a step, by the exit test or by the respawn
\* draw, has at the end of the step the x of the entry edge of its direction,
\* -10 for direction 1 and 144 for direction -1, outside the columns 0 .. 143;
\* a turtle reinitialised during a step has -15 or 144 likewise
C9_ReentryAtEntryEdge ==
    /\ \A i \in step.reinit :
          /\ s_fish[i].direction \in {-1, 1}
          /\ s_fish[i].pos.x = (IF s_fish[i].direction = 1 THEN -10 ELSE 144)
          /\ s_fish[i].pos.x \notin 0 .. 143
    /\ \A i \in step.turtle_reinit :
          /\ s_turtles[i].direction \in {-1, 1}
          /\ s_turtles[i].pos.x = (IF s_turtles[i].direction = 1 THEN -15 ELSE 144)
          /\ s_turtles[i].pos.x \notin 0 .. 143

\* a step has reinitialised a fish that passed its exit edge, a small fish
\* eaten in the same step, and the turtle
C9_Witness ==
    /\ ticks >= 1
    /\ \E i \in step.reinit : step.collided[i].active
    /\ \E j \in step.reinit : /\ step.moved[j].active
                              /\ ~step.collided[j].active
                              /\ s_fish[j].active
    /\ step.turtle_reinit # {}

(***************************************************************************)
(* random_in_range as a function                                           *)
(***************************************************************************)
MinInt == (-INT_MAX) - 1

\* the (min, max) pairs of the random_in_range calls of the engine
EnginePairs ==
    {<<-1, 1>>, <<0, 1>>, <<0, 2>>, <<0, 3>>, <<0, 9>>, <<0, 19>>, <<0, 99>>,
     <<0, 143>>, <<0, 199>>, <<0, 399>>, <<1, 2>>, <<1, 3>>, <<2, 4>>,
     <<20, 119>>, <<20, 139>>, <<37, 106>>, <<50, 99>>, <<60, 119>>,
     <<150, 299>>, <<200, 500>>}

\* pairs no call passes: equal, inverted, and at the ends of int
EdgePairs ==
    {<<7, 7>>, <<5, 3>>, <<INT_MAX, MinInt>>, <<0, INT_MAX - 1>>, <<0, INT_MAX>>,
     <<-1, INT_MAX - 1>>, <<-1, INT_MAX>>, <<MinInt, -1>>, <<MinInt, 0>>,
     <<-INT_MAX, INT_MAX>>, <<MinInt, INT_MAX>>}

\* the values of rand() tried
RandValues == {RandTable[n] : n \in 1 .. Len(RandTable)}

\* a call random_in_range(min, max) about to run, rand() about to return rand
InitRand ==
    /\ ProcessStart
    /\ battery = [charge_percent |-> 21, is_charging |-> FALSE]
    /\ \E p \in EnginePairs \cup EdgePairs, r \in RandValues :
          sample = [min |-> p[1], max |-> p[2], rand |-> r, done |-> FALSE, result |-> 0]
    /\ probe = NoProbe

\* the call returns
random_call ==
    /\ ~sample.done
    /\ \E v \in random_results(sample.min, sample.max, sample.rand) :
          sample' = [sample EXCEPT !.done = TRUE, !.result = v]
    /\ UNCHANGED <<sim_vars, layer_vars, s_main_window, s_path, s_animation_timer,
                   s_battery_level, s_is_charging, s_time_buffer, pc, window, timers,
                   next_timer, fired, cancelled, battery, created, destroyed, dirty,
                   ticks, requests, probe, draw_vars>>

NextRand == random_call

SpecRand == InitRand /\ [][NextRand]_vars

\* C10: random_in_range(min, max) returns a value in min .. max when
\* min <= max and returns min when max <= min, and for the pairs the engine
\* passes max - min + 1 fits an int
C10_RandomInRangeBounds ==
    /\ sample.done =>
          /\ sample.min <= sample.max =>
                (sample.min <= sample.result /\ sample.result <= sample.max)
          /\ sample.max <= sample.min => sample.result = sample.min
    /\ <<sample.min, sample.max>> \in EnginePairs =>
          /\ ~RangeOverflows(sample.min, sample.max)
          /\ (sample.max - sample.min) + 1 \in 1 .. INT_MAX

\* random_in_range(200, 500) has returned 500
C10_Witness ==
    /\ sample.done
    /\ sample.min = 200
    /\ sample.max = 500
    /\ sample.result = 500

(***************************************************************************)
(* Phase counters                                                          *)
(***************************************************************************)
\* the counter update of the mid and simple variants: add, then subtract
\* TRIG_MAX_ANGLE once if the sum has reached it
PhaseSubtract(offset, inc) ==
    IF offset + inc >= TRIG_MAX_ANGLE THEN (offset + inc) - TRIG_MAX_ANGLE
                                      ELSE offset + inc

\* counter after is counter before advanced by inc, modulo TRIG_MAX_ANGLE, in
\* both forms, and lies in 0 .. TRIG_MAX_ANGLE - 1
Advanced(before, inc, after) ==
    /\ after \in 0 .. (TRIG_MAX_ANGLE - 1)
    /\ after = (before + inc) % TRIG_MAX_ANGLE
    /\ after = PhaseSubtract(before, inc)

\* the counters that no step resets
SteadyCountersAdvance ==
    /\ \A i \in SeaweedIdx :
          Advanced(s_seaweed[i].offset, s_seaweed[i].speed * 100, s_seaweed'[i].offset)
    /\ \A i \in 0 .. (MAX_JELLYFISH - 1) :
          Advanced(s_jellyfish[i].tentacle_offset, s_jellyfish[i].speed * 100,
                   s_jellyfish'[i].tentacle_offset)
    /\ Advanced(s_octopus.tentacle_offset, s_octopus.speed * 50,
                s_octopus'.tentacle_offset)
    /\ Advanced(s_seahorse.curve_state, 1, s_seahorse'.curve_state)

\* C11 as stated: every step advances every phase counter, the turtle's
\* animation_offset included, by its per-tick step modulo TRIG_MAX_ANGLE, so
\* that a counter is the sum of its steps modulo TRIG_MAX_ANGLE
C11_AsStated ==
    [][IsStep =>
          /\ SteadyCountersAdvance
          /\ \A i \in 0 .. (MAX_TURTLES - 1) :
                Advanced(s_turtles[i].animation_offset, s_turtles[i].speed * 200,
                         s_turtles'[i].animation_offset)]_vars

\* C11, as the code has it: every step advances the seaweed offset, the
\* jellyfish and octopus tentacle_offset and the seahorse curve_state by their
\* per-tick step modulo TRIG_MAX_ANGLE, the modulo form and the
\* conditional-subtraction form giving the same value in
\* 0 .. TRIG_MAX_ANGLE - 1; the turtle's animation_offset advances the same way
\* in a step that keeps the turtle and is 0 after a step that reinitialises it
C11_PhaseCountersWrap ==
    [][IsStep =>
          /\ SteadyCountersAdvance
          /\ \A i \in 0 .. (MAX_TURTLES - 1) :
                IF i \in step'.turtle_reinit
                THEN s_turtles'[i].animation_offset = 0
                ELSE Advanced(s_turtles[i].animation_offset, s_turtles[i].speed * 200,
                              s_turtles'[i].animation_offset)]_vars

\* after the first step from the late scene: stalk 0 has passed
\* TRIG_MAX_ANGLE and is at 64, stalk 1 has reached it and is at 0, the
\* octopus is at 14, the seahorse at 0, and the turtle was reinitialised
C11_Witness ==
    /\ ticks = 1
    /\ s_seaweed[0].offset = 64
    /\ s_seaweed[1].offset = 0
    /\ s_octopus.tentacle_offset = 14
    /\ s_seahorse.curve_state = 0
    /\ step.turtle_reinit # {}
    /\ \A i \in step.turtle_reinit : s_turtles[i].animation_offset = 0

(***************************************************************************)
(* check_collision as a function                                           *)
(***************************************************************************)
\* centres, offsets between the centres, and radius pairs tried: the radii of
\* the engine (7 and 4) in both orders, two small pairs, and points
CollideCentres == {[x |-> 50, y |-> 50], [x |-> -10, y |-> 80]}

CollideDx == -13 .. 13

CollideDy == {-12, -11, -5, -4, -3, 0, 3, 4, 5, 11, 12}

CollideRadii == {<<7, 4>>, <<4, 7>>, <<2, 3>>, <<2, 2>>, <<0, 0>>}

\* a call check_collision(pos1, radius1, pos2, radius2) about to run
InitCollide ==
    /\ ProcessStart
    /\ battery = [charge_percent |-> 21, is_charging |-> FALSE]
    /\ sample = NoSample
    /\ \E c \in CollideCentres, dx \in CollideDx, dy \in CollideDy, r \in CollideRadii :
          probe = [fn |-> "check_collision",
                   args |-> <<c, r[1], [x |-> c.x + dx, y |-> c.y + dy], r[2]>>,
                   done |-> FALSE, result |-> FALSE]

\* the call returns
check_collision_call ==
    /\ probe.fn = "check_collision"
    /\ ~probe.done
    /\ probe' = [probe EXCEPT !.done = TRUE,
                              !.result = check_collision(probe.args[1], probe.args[2],
                                                         probe.args[3], probe.args[4])]
    /\ UNCHANGED <<sim_vars, layer_vars, s_main_window, s_path, s_animation_timer,
                   s_battery_level, s_is_charging, s_time_buffer, pc, window, timers,
                   next_timer, fired, cancelled, battery, created, destroyed, dirty,
                   ticks, requests, sample, draw_vars>>

NextCollide == check_collision_call

SpecCollide == InitCollide /\ [][NextCollide]_vars

\* the squared distance between the centres of the call, and its radius sum
ProbeDistanceSquared ==
    LET dx == probe.args[1].x - probe.args[3].x
        dy == probe.args[1].y - probe.args[3].y
    IN  (dx * dx) + (dy * dy)

ProbeRadiusSum == probe.args[2] + probe.args[4]

\* C12: check_collision gives the same result with its two circles swapped,
\* and is true exactly when dx*dx + dy*dy <= (radius1 + radius2)^2: centres
\* radius1 + radius2 apart collide, centres radius1 + radius2 + 1 apart do not
C12_CollisionSymmetricAndExact ==
    probe.done =>
       /\ probe.result = check_collision(probe.args[3], probe.args[4],
                                         probe.args[1], probe.args[2])
       /\ probe.result <=> (ProbeDistanceSquared <= ProbeRadiusSum * ProbeRadiusSum)
       /\ ProbeDistanceSquared = ProbeRadiusSum * ProbeRadiusSum => probe.result
       /\ ProbeDistanceSquared = (ProbeRadiusSum + 1) * (ProbeRadiusSum + 1)
             => ~probe.result

\* a call with the centres (3, 4) apart and radii 2 and 3 has returned true
C12_Witness ==
    /\ probe.done
    /\ probe.result
    /\ probe.args[2] = 2
    /\ probe.args[4] = 3
    /\ probe.args[3].x - probe.args[1].x = 3
    /\ probe.args[3].y - probe.args[1].y = 4

(***************************************************************************)
(* Pool and grid capacities                                                *)
(***************************************************************************)
\* C13: after every step at most 7 fish, 8 bubbles and 6 plankton are active,
\* and the indexes the step used are inside the arrays: every cell count is
\* in 0 .. 7, every fish active after the movement has a grid_cell in 0 .. 8
\* and was written to s_fish_in_grid[cell][count] with count in 0 .. 6, and a
\* predator reads only cells in 0 .. 8, slots in 0 .. 6 and fish indexes in
\* 0 .. 6 from the grid
C13_IndexesInCapacity ==
    ticks > 0 =>
       /\ Cardinality({i \in FishIdx : s_fish[i].active}) <= MAX_FISH + MAX_BIG_FISH
       /\ Cardinality({i \in BubbleIdx : s_bubbles[i].active}) <= MAX_BUBBLES
       /\ Cardinality({i \in PlanktonIdx : s_plankton[i].active}) <= MAX_PLANKTON
       /\ \A c \in CellIdx : s_fish_grid_counts[c] \in 0 .. (MAX_FISH + MAX_BIG_FISH)
       /\ \A i \in FishIdx :
             step.moved[i].active =>
                /\ step.moved[i].grid_cell \in CellIdx
                /\ \E count \in 0 .. (MAX_FISH + MAX_BIG_FISH - 1) :
                      /\ count < s_fish_grid_counts[step.moved[i].grid_cell]
                      /\ s_fish_in_grid[step.moved[i].grid_cell][count] = i
       /\ \A i \in FishIdx :
             step.moved[i].active /\ step.moved[i].size > 1 =>
                LET cells == TargetCells(step.moved[i].grid_cell)
                IN  \A n \in 1 .. Len(cells) :
                       LET target_cell == (cells[n].y * GRID_WIDTH) + cells[n].x
                       IN  /\ target_cell \in CellIdx
                           /\ \A k \in 0 .. (s_fish_grid_counts[target_cell] - 1) :
                                 /\ k < MAX_FISH + MAX_BIG_FISH
                                 /\ s_fish_in_grid[target_cell][k] \in FishIdx

\* a step in which all seven fish were active and went to the same cell, so
\* that the last slot of the cell, s_fish_in_grid[cell][6], was written
C13_Witness ==
    /\ ticks > 0
    /\ \E c \in CellIdx :
          /\ s_fish_grid_counts[c] = MAX_FISH + MAX_BIG_FISH
          /\ s_fish_in_grid[c][MAX_FISH + MAX_BIG_FISH - 1] = MAX_FISH + MAX_BIG_FISH - 1
          /\ step.moved[MAX_FISH + MAX_BIG_FISH - 1].active

(***************************************************************************)
(* Redraw                                                                  *)
(***************************************************************************)
\* sin_lookup(angle) of the SDK, by its shape: 0 at 0, TRIG_MAX_ANGLE - 1 (the
\* ratio) at a quarter turn, 0 at half a turn, the negative at three quarters,
\* linear in between
sin_lookup(angle) ==
    LET a == angle % TRIG_MAX_ANGLE
        quarter == TRIG_MAX_ANGLE \div 4
        up(n) == CDiv(n * (TRIG_MAX_ANGLE - 1), quarter)
    IN  IF a <= quarter THEN up(a)
        ELSE IF a <= 3 * quarter THEN up((2 * quarter) - a)
        ELSE up(a - (4 * quarter))

\* draw_fish storing the tail tip in the fish, not in the point buffer
draw_fish_moves_fish(d, i) ==
    LET fish == d.sc.fish[i]
        size == IF fish.size = 1 THEN 4 ELSE 7
    IN  IF ~fish.active THEN d
        ELSE [d EXCEPT !.sc.fish[i].pos.x = fish.pos.x - (fish.direction * size)]

\* draw_fish(ctx, &s_fish[i]); d is [sc, points]
draw_fish(d, i) ==
    LET fish == d.sc.fish[i]
        size == IF fish.size = 1 THEN 4 ELSE 7
    IN  IF ~fish.active THEN d
        ELSE [d EXCEPT !.points["s_fish_tail_points"] =
                 [n \in 0 .. 2 |->
                    IF n = 0 THEN [x |-> fish.pos.x - (fish.direction * size), y |-> fish.pos.y]
                    ELSE IF n = 1 THEN [x |-> fish.pos.x - (fish.direction * (size * 2)),
                                        y |-> fish.pos.y - size]
                    ELSE [x |-> fish.pos.x - (fish.direction * (size * 2)),
                          y |-> fish.pos.y + size]]]

\* draw_turtle(ctx, &s_turtles[i])
draw_turtle(d, i) ==
    LET turtle == d.sc.turtles[i]
        flipper_angle == CRem(turtle.animation_offset, TRIG_MAX_ANGLE)
        flipper_offset == CDiv(sin_lookup(flipper_angle) * 2, TRIG_MAX_ANGLE - 1)
    IN  [d EXCEPT
           !.points["s_turtle_front_flipper_points"] =
              [n \in 0 .. 2 |->
                 IF n = 0 THEN [x |-> turtle.pos.x + (turtle.direction * 5), y |-> turtle.pos.y - 2]
                 ELSE IF n = 1 THEN [x |-> turtle.pos.x + (turtle.direction * 5),
                                     y |-> turtle.pos.y + 6]
                 ELSE [x |-> turtle.pos.x + (turtle.direction * (10 + flipper_offset)),
                       y |-> turtle.pos.y + 5]],
           !.points["s_turtle_back_flipper_points"] =
              [n \in 0 .. 2 |->
                 IF n = 0 THEN [x |-> turtle.pos.x - (turtle.direction * 5), y |-> turtle.pos.y - 2]
                 ELSE IF n = 1 THEN [x |-> turtle.pos.x - (turtle.direction * 5),
                                     y |-> turtle.pos.y + 6]
                 ELSE [x |-> turtle.pos.x - (turtle.direction * (10 - flipper_offset)),
                       y |-> turtle.pos.y + 5]]]

\* draw_shark(ctx, &s_shark)
draw_shark(d) ==
    LET shark == d.sc.shark
        P(x, y) == [x |-> x, y |-> y]
        back == shark.pos.x - (shark.direction * 15)
    IN  IF ~shark.active THEN d
        ELSE [d EXCEPT
                !.points["s_shark_body_points"] =
                   [n \in 0 .. 4 |->
                      CASE n = 0 -> P(shark.pos.x + (shark.direction * 15), shark.pos.y)
                        [] n = 1 -> P(shark.pos.x, shark.pos.y - 8)
                        [] n = 2 -> P(back, shark.pos.y - 5)
                        [] n = 3 -> P(back, shark.pos.y + 5)
                        [] n = 4 -> P(shark.pos.x, shark.pos.y + 8)],
                !.points["s_shark_tail_points"] =
                   [n \in 0 .. 2 |->
                      CASE n = 0 -> P(back, shark.pos.y - 5)
                        [] n = 1 -> P(back, shark.pos.y + 5)
                        [] n = 2 -> P(shark.pos.x - (shark.direction * 25), shark.pos.y)],
                !.points["s_shark_fin_points"] =
                   [n \in 0 .. 2 |->
                      CASE n = 0 -> P(shark.pos.x - (shark.direction * 5), shark.pos.y - 8)
                        [] n = 1 -> P(shark.pos.x - (shark.direction * 5), shark.pos.y - 16)
                        [] n = 2 -> P(shark.pos.x + (shark.direction * 3), shark.pos.y - 8)]]

\* canvas_update_proc drawing the shark before everything else
DrawOrderSharkFirst ==
    <<[fn |-> "draw_shark", count |-> 1],
      [fn |-> "draw_seaweed", count |-> MAX_SEAWEED],
      [fn |-> "draw_clam", count |-> 1],
      [fn |-> "draw_crab", count |-> 1],
      [fn |-> "draw_plankton", count |-> MAX_PLANKTON],
      [fn |-> "draw_turtle", count |-> MAX_TURTLES],
      [fn |-> "draw_jellyfish", count |-> MAX_JELLYFISH],
      [fn |-> "draw_seahorse", count |-> 1],
      [fn |-> "draw_fish", count |-> MAX_FISH + MAX_BIG_FISH],
      [fn |-> "draw_bubble", count |-> MAX_BUBBLES],
      [fn |-> "draw_octopus", count |-> 1]>>

\* the loops and calls of canvas_update_proc, top to bottom: the function
\* called and how many times
DrawOrder ==
    <<[fn |-> "draw_seaweed", count |-> MAX_SEAWEED],
      [fn |-> "draw_clam", count |-> 1],
      [fn |-> "draw_crab", count |-> 1],
      [fn |-> "draw_plankton", count |-> MAX_PLANKTON],
      [fn |-> "draw_turtle", count |-> MAX_TURTLES],
      [fn |-> "draw_jellyfish", count |-> MAX_JELLYFISH],
      [fn |-> "draw_seahorse", count |-> 1],
      [fn |-> "draw_fish", count |-> MAX_FISH + MAX_BIG_FISH],
      [fn |-> "draw_bubble", count |-> MAX_BUBBLES],
      [fn |-> "draw_octopus", count |-> 1],
      [fn |-> "draw_shark", count |-> 1]>>

\* one call fn(ctx, &pool[i]); d is [sc, points]. Only draw_fish, draw_turtle
\* and draw_shark write static storage
DrawOne(d, fn, i) ==
    CASE fn = "draw_fish" -> draw_fish(d, i)
      [] fn = "draw_turtle" -> draw_turtle(d, i)
      [] fn = "draw_shark" -> draw_shark(d)
      [] OTHER -> d

\* for (int i = 0; i < count; i++) fn(ctx, &pool[i]);
RECURSIVE DrawLoop(_, _, _, _)
DrawLoop(d, fn, i, count) ==
    IF i >= count THEN d ELSE DrawLoop(DrawOne(d, fn, i), fn, i + 1, count)

\* the loops of order, one after the other; the loops of the functions that
\* write nothing leave d as it is
RECURSIVE DrawAll(_, _)
DrawAll(d, order) ==
    IF order = << >> THEN d
    ELSE DrawAll(IF Head(order).fn \in {"draw_fish", "draw_turtle", "draw_shark"}
                 THEN DrawLoop(d, Head(order).fn, 0, Head(order).count)
                 ELSE d,
                 Tail(order))

\* the calls the loops of order make, in the order they are made
RECURSIVE DrawCalls(_)
DrawCalls(order) ==
    IF order = << >> THEN << >>
    ELSE [n \in 1 .. Head(order).count |-> [fn |-> Head(order).fn, i |-> n - 1]]
         \o DrawCalls(Tail(order))

\* canvas_update_proc(layer, ctx): the host redraws the canvas layer after
\* layer_mark_dirty
canvas_update_proc ==
    /\ pc = "loop"
    /\ s_canvas_layer
    /\ "s_canvas_layer" \in dirty
    /\ LET d == DrawAll([sc |-> Scene, points |-> s_points], DrawOrder)
       IN  /\ SetScene(d.sc)
           /\ s_points' = d.points
    /\ drawn' = DrawCalls(DrawOrder)
    /\ dirty' = dirty \ {"s_canvas_layer"}
    /\ UNCHANGED <<step, s_main_window, layer_vars, s_path, s_animation_timer,
                   s_battery_level, s_is_charging, s_time_buffer, pc, window, timers,
                   next_timer, fired, cancelled, battery, created, destroyed, ticks,
                   requests, sample, probe>>

\* the snapshots with every bubble slot in use at the start
InitDraw == InitSim /\ \A i \in BubbleIdx : s_bubbles[i].active

NextDraw == animation_timer_callback \/ canvas_update_proc

SpecDraw == InitDraw /\ [][NextDraw]_vars

\* a redraw: the canvas layer was dirty and is clean, and no step ran
IsRedraw == "s_canvas_layer" \in dirty /\ "s_canvas_layer" \notin dirty' /\ ticks' = ticks

\* C14: a redraw leaves every pool, the spatial grid, the battery variables
\* and the timer handle as they were; of the program's variables it writes
\* only the shape point buffers
C14_RedrawKeepsSimulation ==
    [][IsRedraw =>
         UNCHANGED <<s_fish, s_seaweed, s_bubbles, s_plankton, s_octopus, s_turtles,
                     s_jellyfish, s_shark, s_seahorse, s_crab, s_clam, s_fish_in_grid,
                     s_fish_grid_counts, s_battery_level, s_is_charging,
                     s_animation_timer, s_main_window, layer_vars, s_path,
                     s_time_buffer>>]_vars

\* a redraw of a scene with active fish and an active shark has written the
\* tail buffer of the last active fish and the body buffer of the shark
C14_Witness ==
    /\ drawn # << >>
    /\ "s_canvas_layer" \notin dirty
    /\ s_shark.active
    /\ s_points["s_shark_body_points"][0] =
          [x |-> s_shark.pos.x + (s_shark.direction * 15), y |-> s_shark.pos.y]
    /\ \E i \in FishIdx :
          /\ s_fish[i].active
          /\ \A j \in FishIdx : j > i => ~s_fish[j].active
          /\ s_points["s_fish_tail_points"][0].y = s_fish[i].pos.y
          /\ s_points["s_fish_tail_points"][1].y # s_fish[i].pos.y
    /\ s_points["s_turtle_front_flipper_points"][2].y = s_turtles[0].pos.y + 5

\* the position in drawn of the first and of the last call of fn
FirstCall(fn) == CHOOSE n \in 1 .. Len(drawn) :
                    drawn[n].fn = fn /\ \A m \in 1 .. (n - 1) : drawn[m].fn # fn

LastCall(fn) == CHOOSE n \in 1 .. Len(drawn) :
                   drawn[n].fn = fn /\ \A m \in (n + 1) .. Len(drawn) : drawn[m].fn # fn

\* C15: in every redraw each draw function is called for each slot of its
\* pool; every draw_seaweed call comes before every other call; the draw_clam,
\* draw_crab and draw_plankton calls come before the first draw_fish call;
\* every draw_fish call comes before the first draw_bubble call; draw_shark is
\* the last call
C15_DrawOrderFixed ==
    drawn # << >> =>
       /\ \A o \in 1 .. Len(DrawOrder) :
             Cardinality({n \in 1 .. Len(drawn) : drawn[n].fn = DrawOrder[o].fn})
                = DrawOrder[o].count
       /\ \A n \in 1 .. Len(drawn) : (n <= MAX_SEAWEED) <=> (drawn[n].fn = "draw_seaweed")
       /\ LastCall("draw_clam") < FirstCall("draw_fish")
       /\ LastCall("draw_crab") < FirstCall("draw_fish")
       /\ LastCall("draw_plankton") < FirstCall("draw_fish")
       /\ LastCall("draw_fish") < FirstCall("draw_bubble")
       /\ drawn[Len(drawn)].fn = "draw_shark"
       /\ \A n \in 1 .. (Len(drawn) - 1) : drawn[n].fn # "draw_shark"

\* a redraw after a step has made its 38 calls, the first for seaweed 0 and
\* the last for the shark
C15_Witness ==
    /\ ticks > 0
    /\ Len(drawn) = MAX_SEAWEED + MAX_PLANKTON + MAX_TURTLES + MAX_JELLYFISH
                      + MAX_FISH + MAX_BIG_FISH + MAX_BUBBLES + 5
    /\ drawn[1] = [fn |-> "draw_seaweed", i |-> 0]
    /\ drawn[Len(drawn)] = [fn |-> "draw_shark", i |-> 0]

(***************************************************************************)
(* Respawn                                                                 *)
(***************************************************************************)
\* the small fish a step's collision loop deactivated
EatenInStep(st) == {i \in SmallIdx : st.moved[i].active /\ ~st.collided[i].active}

\* C16: a small fish deactivated by being eaten during a step is inactive
\* when the step ends
C16_EatenStaysInactive ==
    [][IsStep => \A i \in EatenInStep(step') : ~s_fish'[i].active]_vars

\* a step has eaten a small fish in its collision loop and reinitialised the
\* same slot in its respawn loop
C16_Witness ==
    /\ ticks > 0
    /\ \E i \in EatenInStep(step) : i \in step.reinit /\ s_fish[i].active

(***************************************************************************)
(* The loops that empty and refill fish slots, run again and again         *)
(***************************************************************************)
\* the shark's fish loop of one step, with the shark where it is
shark_fish_loop ==
    /\ pc = "loop"
    /\ s_shark.active
    /\ \E k \in Streams :
          LET eaten == SharkEatFrom([fish |-> s_fish, bubbles |-> s_bubbles, fish_eaten |-> 0],
                                    s_shark, 0, k)
          IN  /\ s_fish' = eaten.fish
              /\ s_bubbles' = eaten.bubbles
    /\ UNCHANGED <<s_seaweed, s_plankton, s_octopus, s_turtles, s_jellyfish, s_shark,
                   s_seahorse, s_crab, s_clam, s_fish_in_grid, s_fish_grid_counts, step,
                   s_main_window, layer_vars, s_path, s_animation_timer, s_battery_level,
                   s_is_charging, s_time_buffer, pc, window, timers, next_timer, fired,
                   cancelled, battery, created, destroyed, dirty, ticks, requests,
                   sample, probe, draw_vars>>

\* the respawn loop of one step: for (int i = 0; i < MAX_FISH; i++), where
\* the draw random_in_range(0, 99) < 2 succeeds for the slots in wins and
\* init_fish takes the values of stream k
respawn_loop(wins) ==
    /\ pc = "loop"
    /\ \E k \in Streams :
          s_fish' = [i \in FishIdx |->
                       IF i < MAX_FISH /\ ~s_fish[i].active /\ i \in wins
                       THEN init_fish(s_fish[i], 1, k, i + MAX_FISH + MAX_BIG_FISH)
                       ELSE s_fish[i]]
    /\ UNCHANGED <<s_seaweed, s_bubbles, s_plankton, s_octopus, s_turtles, s_jellyfish,
                   s_shark, s_seahorse, s_crab, s_clam, s_fish_in_grid,
                   s_fish_grid_counts, step, s_main_window, layer_vars, s_path,
                   s_animation_timer, s_battery_level, s_is_charging, s_time_buffer, pc,
                   window, timers, next_timer, fired, cancelled, battery, created,
                   destroyed, dirty, ticks, requests, sample, probe, draw_vars>>

NextRespawn == shark_fish_loop \/ \E wins \in SUBSET SmallIdx : respawn_loop(wins)

\* the respawn loop keeps running, and the draws made again and again
\* succeed in the end, even all in the same step
SpecRespawn ==
    /\ InitDraw
    /\ [][NextRespawn]_vars
    /\ WF_vars(respawn_loop(SmallIdx))

\* C17: every fish slot, small or big, that is inactive is active again later
C17_EveryInactiveSlotRespawns ==
    \A i \in FishIdx : (~s_fish[i].active) ~> s_fish[i].active

\* the shark has eaten the big fish of slot 5 where it swam, next to the
\* shark, and a small slot has been refilled at an entry edge
C17_Witness ==
    /\ ~s_fish[MAX_FISH].active
    /\ s_fish[MAX_FISH].pos = [x |-> 50, y |-> 50]
    /\ s_shark.active
    /\ abs(s_shark.pos.x - s_fish[MAX_FISH].pos.x) < 20
    /\ abs(s_shark.pos.y - s_fish[MAX_FISH].pos.y) < 12
    /\ \E i \in SmallIdx : s_fish[i].active /\ s_fish[i].pos.x \in {-10, 144}

\* what the respawn loop does give: every small slot that is inactive is
\* active again later
SmallSlotsRespawn == \A i \in SmallIdx : (~s_fish[i].active) ~> s_fish[i].active

(***************************************************************************)
(* get_grid_cell as a function                                             *)
(***************************************************************************)
\* coordinates on both sides of every cell border and of every screen edge
GridXs == {-10, -1, 0, 47, 48, 95, 96, 100, 143, 144, 154}

GridYs == {-5, 0, 55, 56, 100, 111, 112, 167, 168, 200}

\* a call get_grid_cell(point) about to run
InitGrid ==
    /\ ProcessStart
    /\ battery = [charge_percent |-> 21, is_charging |-> FALSE]
    /\ sample = NoSample
    /\ \E x \in GridXs, y \in GridYs :
          probe = [fn |-> "get_grid_cell", args |-> <<[x |-> x, y |-> y]>>,
                   done |-> FALSE, result |-> 0]

\* the call returns
get_grid_cell_call ==
    /\ probe.fn = "get_grid_cell"
    /\ ~probe.done
    /\ probe' = [probe EXCEPT !.done = TRUE, !.result = get_grid_cell(probe.args[1])]
    /\ UNCHANGED <<sim_vars, layer_vars, s_main_window, s_path, s_animation_timer,
                   s_battery_level, s_is_charging, s_time_buffer, pc, window, timers,
                   next_timer, fired, cancelled, battery, created, destroyed, dirty,
                   ticks, requests, sample, draw_vars>>

NextGrid == get_grid_cell_call

SpecGrid == InitGrid /\ [][NextGrid]_vars

\* C18: get_grid_cell maps an on-screen point to cell (y div 56) * 3 +
\* (x div 48) of a 3x3 grid of cells 48 wide and 56 high, and an off-screen
\* point to the nearest edge cell
C18_GridPartition ==
    probe.done =>
       LET point == probe.args[1]
           column == IF point.x < 0 THEN 0
                     ELSE IF point.x >= 144 THEN GRID_WIDTH - 1 ELSE point.x \div 48
           row == IF point.y < 0 THEN 0
                  ELSE IF point.y >= 168 THEN GRID_HEIGHT - 1 ELSE point.y \div 56
       IN  probe.result = (row * GRID_WIDTH) + column

\* the call for the on-screen point (100, 100), of the middle row and the
\* right column, has returned cell 0
C18_Witness ==
    /\ probe.done
    /\ probe.args[1] = [x |-> 100, y |-> 100]
    /\ probe.result = 0

(***************************************************************************)
(* The tick loop                                                           *)
(***************************************************************************)
\* C19: every return of animation_timer_callback leaves exactly one animation
\* timer pending, the one s_animation_timer holds, also when a call of
\* app_timer_register in it has failed
C19_TimerPendingAfterCallback ==
    [][IsStep =>
          /\ s_animation_timer' # NULL
          /\ Cardinality(timers') = 1
          /\ \E t \in timers' : t.id = s_animation_timer']_vars

\* a callback in which both app_timer_register calls failed has returned: the
\* window is loaded, the handle is NULL and no timer is pending
C19_Witness ==
    /\ ticks > 0
    /\ pc = "loop"
    /\ window # "none"
    /\ Len(requests) = 2
    /\ ~requests[2].ok
    /\ s_animation_timer = NULL
    /\ timers = {}

(***************************************************************************)
(* Layer creation failures in main_window_load                             *)
(***************************************************************************)
\* main_window_load has run
IsLoad == window = "pushed" /\ window' = "loaded"

\* the layers that are NULL after a handler
MissingLayers == {l \in 1 .. 4 : ~(<<s_canvas_layer, s_time_layer, s_date_layer,
                                     s_battery_layer>>[l])'}

\* C20: when the creation of one layer fails in main_window_load only that
\* layer is missing afterwards: the layers after it are created, the pools
\* are initialised and an animation timer was asked for
C20_LayerFailureIsLocal ==
    [][IsLoad =>
          /\ Cardinality(MissingLayers) <= 1
          /\ \E k \in Streams : s_fish' = LoadScene(Scene, k).fish
          /\ Len(requests') >= 1]_vars

\* the window was loaded with the canvas layer created and the time layer
\* not: the date and battery layers are missing too, no fish is active and no
\* timer was asked for
C20_Witness ==
    /\ window = "loaded"
    /\ s_canvas_layer
    /\ ~s_time_layer
    /\ ~s_date_layer
    /\ ~s_battery_layer
    /\ \A i \in FishIdx : ~s_fish[i].active
    /\ requests = << >>
    /\ s_animation_timer = NULL
    /\ timers = {}

(***************************************************************************)
(* The simple variant (part_003): three fish and the seaweed, no timer     *)
(* handle, no path pointers. Its pools are the first SIMPLE_MAX_FISH slots *)
(* of s_fish and s_seaweed; its Fish has no active, size or grid_cell      *)
(* field, and these keep the values they have. The lifecycle functions of  *)
(* the mid variant (part_002) read the same, line for line.                *)
(***************************************************************************)
SIMPLE_MAX_FISH == 3

\* init_fish(fish) of the simple variant; rand() is never negative
simple_init_fish(fish, k, i) ==
    LET y == 20 + (Rand(k, Site.fish_y, i) % 100)
        d == ((Rand(k, Site.fish_dir, i) % 2) * 2) - 1
        sp == 2 + (Rand(k, Site.fish_speed, i) % 3)
    IN  [fish EXCEPT !.pos = [x |-> IF d = 1 THEN -10 ELSE 144, y |-> y],
                     !.direction = d, !.speed = sp]

\* animation_update() of the simple variant, without its layer_mark_dirty
simple_animation_update(fish, seaweed, k) ==
    [fish |-> [i \in FishIdx |->
                 IF i >= SIMPLE_MAX_FISH THEN fish[i]
                 ELSE LET m == [fish[i] EXCEPT !.pos.x = @ + (fish[i].direction * fish[i].speed)]
                      IN  IF (m.direction = 1 /\ m.pos.x > 144)
                             \/ (m.direction = -1 /\ m.pos.x < -10)
                          THEN simple_init_fish(m, k, i) ELSE m],
     seaweed |-> [i \in SeaweedIdx |->
                    [seaweed[i] EXCEPT !.offset = PhaseSubtract(@, seaweed[i].speed * 100)]]]

\* whether the object o exists: created and not destroyed since
Alive(o) == created[o] > destroyed[o]

\* init() of the simple variant, in a run where window_create succeeds
simple_init ==
    /\ pc = "start"
    /\ pc' = "loop"
    /\ s_main_window' = TRUE
    /\ created' = [created EXCEPT !["s_main_window"] = @ + 1]
    /\ window' = "pushed"
    /\ UNCHANGED <<sim_vars, layer_vars, s_path, s_animation_timer, s_battery_level,
                   s_is_charging, s_time_buffer, timers, next_timer, fired, cancelled,
                   battery, destroyed, dirty, ticks, requests, sample, probe, draw_vars>>

\* main_window_load() of the simple variant: the four layers, the pools, the
\* first timer (whose handle is dropped) and the time
simple_main_window_load ==
    /\ pc = "loop"
    /\ window = "pushed"
    /\ window' = "loaded"
    /\ s_canvas_layer' = TRUE
    /\ s_time_layer' = TRUE
    /\ s_date_layer' = TRUE
    /\ s_battery_layer' = TRUE
    /\ created' = [o \in ObjectNames |-> IF o \in LayerNames THEN created[o] + 1
                                                             ELSE created[o]]
    /\ \E k \in Streams, ok \in BOOLEAN, now \in Minutes :
          LET timer == app_timer_register(timers, next_timer, ANIMATION_INTERVAL, ok)
          IN  /\ s_fish' = [i \in FishIdx |-> IF i < SIMPLE_MAX_FISH
                                              THEN simple_init_fish(s_fish[i], k, i)
                                              ELSE s_fish[i]]
              /\ s_seaweed' = [i \in SeaweedIdx |-> init_seaweed(20 + (i * 35), k, i)]
              /\ timers' = timer.timers
              /\ next_timer' = timer.next
              /\ s_time_buffer' = now
    /\ UNCHANGED <<s_bubbles, s_plankton, s_octopus, s_turtles, s_jellyfish, s_shark,
                   s_seahorse, s_crab, s_clam, s_fish_in_grid, s_fish_grid_counts, step,
                   s_main_window, s_path, s_animation_timer, s_battery_level,
                   s_is_charging, pc, fired, cancelled, battery, destroyed, dirty, ticks,
                   requests, sample, probe, draw_vars>>

\* animation_timer_callback() of the simple variant: the host delivers the
\* pending timer t. layer_mark_dirty on a destroyed canvas layer is a use of
\* freed memory: the program goes on or crashes
simple_animation_timer_callback ==
    /\ pc = "loop"
    /\ ticks < MaxTicks
    /\ \E t \in timers, k \in Streams, ok \in BOOLEAN :
          LET r == simple_animation_update(s_fish, s_seaweed, k)
              timer == app_timer_register(timers \ {t}, next_timer, ANIMATION_INTERVAL, ok)
          IN  /\ fired' = fired \cup {t.id}
              /\ s_fish' = r.fish
              /\ s_seaweed' = r.seaweed
              /\ timers' = timer.timers
              /\ next_timer' = timer.next
    /\ dirty' = dirty \cup {"s_canvas_layer"}
    /\ pc' \in IF Alive("s_canvas_layer") THEN {"loop"} ELSE {"loop", "crashed"}
    /\ ticks' = ticks + 1
    /\ UNCHANGED <<s_bubbles, s_plankton, s_octopus, s_turtles, s_jellyfish, s_shark,
                   s_seahorse, s_crab, s_clam, s_fish_in_grid, s_fish_grid_counts, step,
                   s_main_window, layer_vars, s_path, s_animation_timer, s_battery_level,
                   s_is_charging, s_time_buffer, window, cancelled, battery, created,
                   destroyed, requests, sample, probe, draw_vars>>

\* canvas_update_proc of the simple variant: the host redraws the canvas
\* layer, which exists and is dirty. Each draw_fish call makes one
\* gpath_create call, of which made return a path, and destroys what it got
simple_canvas_update_proc ==
    /\ pc = "loop"
    /\ Alive("s_canvas_layer")
    /\ "s_canvas_layer" \in dirty
    /\ dirty' = dirty \ {"s_canvas_layer"}
    /\ \E made \in 0 .. SIMPLE_MAX_FISH :
          /\ created' = [created EXCEPT !["s_fish_tail_path"] = @ + made]
          /\ destroyed' = [destroyed EXCEPT !["s_fish_tail_path"] = @ + made]
    /\ drawn' = DrawCalls(<<[fn |-> "draw_seaweed", count |-> MAX_SEAWEED],
                            [fn |-> "draw_fish", count |-> SIMPLE_MAX_FISH]>>)
    /\ UNCHANGED <<sim_vars, s_main_window, layer_vars, s_path, s_animation_timer,
                   s_battery_level, s_is_charging, s_time_buffer, pc, window, timers,
                   next_timer, fired, cancelled, battery, ticks, requests, sample, probe,
                   s_points>>

\* tick_handler() of the simple variant: update_time() sets the text of the
\* time and date layers, a use of freed memory once they are destroyed
simple_tick_handler ==
    /\ pc = "loop"
    /\ window # "none"
    /\ window # "pushed"
    /\ \E now \in Minutes : s_time_buffer' = now
    /\ pc' \in IF Alive("s_time_layer") THEN {"loop"} ELSE {"loop", "crashed"}
    /\ UNCHANGED <<sim_vars, s_main_window, layer_vars, s_path, s_animation_timer,
                   s_battery_level, s_is_charging, window, timers, next_timer, fired,
                   cancelled, battery, created, destroyed, dirty, ticks, requests,
                   sample, probe, draw_vars>>

\* main_window_unload() of the simple variant, when the host removes the
\* window while the loop runs: the four layers are destroyed, the pointers
\* keep their values and the pending timer stays
simple_main_window_unload ==
    /\ pc = "loop"
    /\ window = "loaded"
    /\ window' = "unloaded"
    /\ DestroyAll(LayerNames)
    /\ dirty' = {}
    /\ UNCHANGED <<sim_vars, s_main_window, layer_vars, s_path, s_animation_timer,
                   s_battery_level, s_is_charging, s_time_buffer, pc, timers, next_timer,
                   fired, cancelled, battery, created, ticks, requests, sample, probe,
                   draw_vars>>

\* app_event_loop() returns and deinit() of the simple variant runs:
\* window_destroy calls the unload handler of a window that is still loaded
simple_deinit ==
    /\ pc = "loop"
    /\ pc' = "exited"
    /\ IF window = "loaded"
       THEN /\ window' = "unloaded"
            /\ DestroyAll(LayerNames \cup {"s_main_window"})
            /\ dirty' = {}
       ELSE /\ DestroyAll({"s_main_window"})
            /\ UNCHANGED <<window, dirty>>
    /\ UNCHANGED <<sim_vars, s_main_window, layer_vars, s_path, s_animation_timer,
                   s_battery_level, s_is_charging, s_time_buffer, timers, next_timer,
                   fired, cancelled, battery, created, ticks, requests, sample, probe,
                   draw_vars>>

NextSimple ==
    \/ simple_init
    \/ simple_main_window_load
    \/ simple_animation_timer_callback
    \/ simple_canvas_update_proc
    \/ simple_tick_handler
    \/ simple_main_window_unload
    \/ simple_deinit

SpecSimple == Init /\ [][NextSimple]_vars

\* C21: in the simpler variants no animation_timer_callback runs once
\* main_window_unload has destroyed the canvas layer, so that no step marks a
\* destroyed layer dirty
C21_NoCallbackAfterUnload ==
    [][IsStep => Alive("s_canvas_layer")]_vars

\* the timer armed before the unload has fired after it: a step has run, the
\* window is unloaded, and the destroyed canvas layer is marked dirty
C21_Witness ==
    /\ ticks > 0
    /\ window = "unloaded"
    /\ created["s_canvas_layer"] = 1
    /\ destroyed["s_canvas_layer"] = 1
    /\ "s_canvas_layer" \in dirty
    /\ fired # {}

(***************************************************************************)
(* The shark's range test as a function                                    *)
(***************************************************************************)
\* the largest radius sum tried
MaxRadius == 40

\* the fish positions tried around a shark: every offset up to 21 across and
\* 13 down, which covers the whole range and a margin around it
RangeOffsets == {[x |-> dx, y |-> dy] : dx \in -21 .. 21, dy \in -13 .. 13}

\* the shark at one of its positions, about to test the fish around it
InitRange ==
    /\ ProcessStart
    /\ battery = [charge_percent |-> 21, is_charging |-> FALSE]
    /\ sample = NoSample
    /\ \E x \in {-30, -10, 0, 20, 48, 72, 100, 144, 160, 174}, y \in 50 .. 55 :
          probe = [fn |-> "shark_in_range", args |-> <<[x |-> x, y |-> y]>>,
                   done |-> FALSE, result |-> {}]

\* the tests return: the result is the set of offsets of the fish in range
shark_in_range_call ==
    /\ probe.fn = "shark_in_range"
    /\ ~probe.done
    /\ probe' = [probe EXCEPT
                   !.done = TRUE,
                   !.result = {o \in RangeOffsets :
                                 shark_in_range(probe.args[1],
                                                [x |-> probe.args[1].x + o.x,
                                                 y |-> probe.args[1].y + o.y])}]
    /\ UNCHANGED <<sim_vars, layer_vars, s_main_window, s_path, s_animation_timer,
                   s_battery_level, s_is_charging, s_time_buffer, pc, window, timers,
                   next_timer, fired, cancelled, battery, created, destroyed, dirty,
                   ticks, requests, sample, draw_vars>>

NextRange == shark_in_range_call

SpecRange == InitRange /\ [][NextRange]_vars

\* C22: the shark's range is a disc: there is a radius sum R such that a fish
\* is in range exactly when dx*dx + dy*dy <= R*R
C22_SharkRangeIsDisc ==
    probe.done =>
       \E R \in 0 .. MaxRadius :
          probe.result = {o \in RangeOffsets : (o.x * o.x) + (o.y * o.y) <= R * R}

\* the tests have returned with the fish at offset (19, 11), 21.9 away, in
\* range and the fish at offset (0, 12), 12 away, out of range
C22_Witness ==
    /\ probe.done
    /\ [x |-> 19, y |-> 11] \in probe.result
    /\ [x |-> 0, y |-> 12] \notin probe.result
    /\ [x |-> 20, y |-> 0] \notin probe.result

(***************************************************************************)
(* The shark's fish loop within a step                                     *)
(***************************************************************************)
\* the fish the last step's shark block had in range when it began: the
\* active fish near the shark where its move put it
SharkInRange ==
    {i \in FishIdx : step.pre_shark_fish[i].active
                     /\ shark_in_range(s_shark.pos, step.pre_shark_fish[i].pos)}

\* the fish the last step's shark block deactivated
SharkEaten == {i \in FishIdx : step.pre_shark_fish[i].active /\ ~s_fish[i].active}

\* C23: in one step an active shark deactivates the two lowest-indexed active
\* fish in range (all of them when fewer than two are in range) and leaves
\* every other fish as it was; an inactive shark leaves every fish as it was
C23_SharkEatsAtMostTwo ==
    ticks > 0 =>
       /\ step.shark_active =>
             /\ SharkEaten \subseteq SharkInRange
             /\ Cardinality(SharkEaten) = IF Cardinality(SharkInRange) < 2
                                          THEN Cardinality(SharkInRange) ELSE 2
             /\ \A i \in SharkEaten : \A j \in SharkInRange \ SharkEaten : i < j
       /\ ~step.shark_active => SharkEaten = {}
       /\ \A i \in FishIdx \ SharkEaten : s_fish[i] = step.pre_shark_fish[i]
       /\ \A i \in SharkEaten : s_fish[i] = [step.pre_shark_fish[i] EXCEPT !.active = FALSE]

\* a step's shark had three or more fish in range, deactivated two of them
\* and left a third one active
C23_Witness ==
    /\ ticks > 0
    /\ step.shark_active
    /\ Cardinality(SharkInRange) >= 3
    /\ Cardinality(SharkEaten) = 2
    /\ \E j \in SharkInRange : s_fish[j].active

(***************************************************************************)
(* The grid after its rebuild                                              *)
(***************************************************************************)
\* the entries of the cell lists as the last update_spatial_grid left them:
\* cell c holds the slots below its count
GridEntries ==
    {e \in CellIdx \X (0 .. (MAX_FISH + MAX_BIG_FISH - 1)) : e[2] < s_fish_grid_counts[e[1]]}

\* C24: after update_spatial_grid every active fish index appears exactly
\* once over all cell lists, in the list of its grid_cell, which is
\* get_grid_cell of its position; no inactive fish is in a list, and the
\* lists hold as many entries as there are active fish
C24_GridRebuiltEachStep ==
    ticks > 0 =>
       /\ \A i \in FishIdx :
             step.moved[i].active =>
                /\ step.moved[i].grid_cell = get_grid_cell(step.moved[i].pos)
                /\ \E e \in GridEntries :
                      /\ e[1] = step.moved[i].grid_cell
                      /\ {d \in GridEntries : s_fish_in_grid[d[1]][d[2]] = i} = {e}
       /\ \A e \in GridEntries : step.moved[s_fish_in_grid[e[1]][e[2]]].active
       /\ Cardinality(GridEntries) = Cardinality({i \in FishIdx : step.moved[i].active})

\* a second step has rebuilt the grid with fewer fish than the first: a fish
\* that is inactive is still in a slot of the array at or above the count of
\* its cell, where the earlier step wrote it, and in no list
C24_Witness ==
    /\ ticks > 1
    /\ \E i \in FishIdx :
          /\ ~step.moved[i].active
          /\ \E c \in CellIdx : \E n \in 0 .. (MAX_FISH + MAX_BIG_FISH - 1) :
                /\ n >= s_fish_grid_counts[c]
                /\ s_fish_in_grid[c][n] = i
          /\ \A e \in GridEntries : s_fish_in_grid[e[1]][e[2]] # i
    /\ GridEntries # {}

(***************************************************************************)
(* One eating event and the bubble pool                                    *)
(***************************************************************************)
\* the eating event of the middle variant: three passes, each taking the
\* first inactive slot, with sizes and speeds 1 + rand() % 2
RECURSIVE mid_create_bubbles(_, _, _, _)
mid_create_bubbles(bubbles, pos, b, k) ==
    IF b >= 3 THEN bubbles
    ELSE LET free == {s \in BubbleIdx : ~bubbles[s].active}
         IN  IF free = {} THEN mid_create_bubbles(bubbles, pos, b + 1, k)
             ELSE LET first == CHOOSE s \in free : \A t \in free : s <= t
                  IN  mid_create_bubbles(
                         [bubbles EXCEPT ![first] =
                             [pos |-> pos,
                              size |-> 1 + (Rand(k, Site.eat_size, first) % 2),
                              speed |-> 1 + (Rand(k, Site.eat_speed, first) % 2),
                              active |-> TRUE]],
                         pos, b + 1, k)

\* the three places an eating event creates bubbles
EatingEvents == {"big_fish", "shark", "mid"}

\* an eating event at (62, 50) about to create its bubbles, with any set of
\* the bubble slots active; the inactive slots hold what earlier bubbles left
InitBubbles ==
    /\ ProcessStart
    /\ battery = [charge_percent |-> 21, is_charging |-> FALSE]
    /\ sample = NoSample
    /\ \E on \in SUBSET BubbleIdx, event \in EatingEvents, k \in Streams :
          probe = [fn |-> "create_bubbles",
                   args |-> <<[i \in BubbleIdx |->
                                 Bubble(10 + (i * 5), 20 * i, 1 + (i % 3), 1 + (i % 3),
                                        i \in on)],
                              [x |-> 62, y |-> 50], event, k>>,
                   done |-> FALSE, result |-> << >>]

\* the bubble loop of the event runs
create_bubbles_call ==
    /\ probe.fn = "create_bubbles"
    /\ ~probe.done
    /\ LET bubbles == probe.args[1]
           pos == probe.args[2]
           k == probe.args[4]
       IN  probe' = [probe EXCEPT
                       !.done = TRUE,
                       !.result =
                          CASE probe.args[3] = "big_fish" ->
                                  CreateBubbles(bubbles, pos, 0, 0, k,
                                                Site.eat_size, Site.eat_speed, 2)
                            [] probe.args[3] = "shark" ->
                                  CreateBubbles(bubbles, pos, 0, 0, k,
                                                Site.shark_eat_size, Site.shark_eat_speed, 3)
                            [] OTHER -> mid_create_bubbles(bubbles, pos, 0, k)]
    /\ UNCHANGED <<sim_vars, layer_vars, s_main_window, s_path, s_animation_timer,
                   s_battery_level, s_is_charging, s_time_buffer, pc, window, timers,
                   next_timer, fired, cancelled, battery, created, destroyed, dirty,
                   ticks, requests, sample, draw_vars>>

NextBubbles == create_bubbles_call

SpecBubbles == InitBubbles /\ [][NextBubbles]_vars

\* the slots inactive before the event, and the slots the event activated
FreeBefore == {b \in BubbleIdx : ~probe.args[1][b].active}
Activated == {b \in FreeBefore : probe.result[b].active}

\* C25: an eating event activates the three lowest-indexed inactive bubble
\* slots (all of them when fewer than three are inactive, none when none is),
\* puts the new bubbles at the prey's position and leaves every other slot,
\* active or not, as it was
C25_EventTakesLowestFreeSlots ==
    probe.done =>
       /\ Cardinality(Activated) = IF Cardinality(FreeBefore) < 3
                                   THEN Cardinality(FreeBefore) ELSE 3
       /\ \A b \in Activated : \A c \in FreeBefore \ Activated : b < c
       /\ \A b \in Activated :
             /\ probe.result[b].pos = probe.args[2]
             /\ probe.result[b].size \in 1 .. 3
             /\ probe.result[b].speed \in 1 .. 3
       /\ \A b \in BubbleIdx \ Activated : probe.result[b] = probe.args[1][b]

\* an event has run with exactly two slots inactive, not the lowest ones:
\* both are active now and the third bubble was dropped
C25_Witness ==
    /\ probe.done
    /\ FreeBefore = {3, 7}
    /\ Activated = {3, 7}
    /\ probe.result[0] = probe.args[1][0]

(***************************************************************************)
(* Where the entities are when a step ends                                 *)
(***************************************************************************)
\* C26: at the end of every step every fish has -10 <= x <= 144 and
\* 20 <= y <= 119, every turtle has -15 <= x <= 144 and 60 <= y <= 119, and
\* the shark, while active, has -30 <= x <= 174 and 50 <= y <= 99
C26_CrossingEntitiesInRange ==
    ticks > 0 =>
       /\ \A i \in FishIdx :
             /\ s_fish[i].pos.x \in -10 .. 144
             /\ s_fish[i].pos.y \in 20 .. 119
       /\ \A i \in 0 .. (MAX_TURTLES - 1) :
             /\ s_turtles[i].pos.x \in -15 .. 144
             /\ s_turtles[i].pos.y \in 60 .. 119
       /\ s_shark.active =>
             /\ s_shark.pos.x \in -30 .. 174
             /\ s_shark.pos.y \in 50 .. 99

\* a step has ended with a fish reinitialised at an entry edge after passing
\* its exit edge, with a turtle reinitialised, and with the active shark on
\* the edge of its range
C26_Witness ==
    /\ ticks > 0
    /\ \E i \in step.reinit : s_fish[i].pos.x \in {-10, 144}
    /\ step.turtle_reinit # {}
    /\ s_shark.active
    /\ s_shark.pos.x = 174

\* C27: at the end of every step each active bubble lies inside the visible
\* rectangle: 0 <= x <= 144 and 0 <= y <= 168
C27_BubblesOnScreen ==
    ticks > 0 =>
       \A i \in BubbleIdx :
          s_bubbles[i].active =>
             /\ s_bubbles[i].pos.x \in 0 .. 144
             /\ s_bubbles[i].pos.y \in 0 .. 168

\* a step has ended with an active bubble left of the screen, where a fish
\* that had just entered at the left edge was eaten
C27_Witness ==
    /\ ticks > 0
    /\ \E i \in BubbleIdx, j \in EatenInStep(step) :
          /\ s_bubbles[i].active
          /\ s_bubbles[i].pos.x < 0
          /\ abs(s_bubbles[i].pos.x - step.moved[j].pos.x) <= 1
          /\ s_bubbles[i].pos.y < step.moved[j].pos.y

(***************************************************************************)
(* The drifting entities, one update at a time                             *)
(***************************************************************************)
\* rand() streams that between them return every value of RandTable at
\* every call site
DriftStreams == 1 .. Len(RandTable)

\* a plankton, the octopus or a jellyfish on or next to the limits of its
\* range, about to be updated
DriftPlankton ==
    {[pos |-> [x |-> x, y |-> y], direction |-> 1, speed |-> 1, active |-> a] :
        x \in {0, 1, 72, 143, 144}, y \in {0, 1, 100, 167, 168}, a \in BOOLEAN}

DriftOctopus ==
    {[init_octopus(1) EXCEPT !.pos.x = x] : x \in {10, 11, 72, 133, 134}}

DriftJellyfish ==
    {[init_jellyfish(1, 0) EXCEPT !.pos = [x |-> x, y |-> y], !.pulse_state = p] :
        x \in {10, 72, 134}, y \in {60, 61, 62, 120}, p \in {48, 49, 99}}

InitDrift ==
    /\ ProcessStart
    /\ battery = [charge_percent |-> 21, is_charging |-> FALSE]
    /\ sample = NoSample
    /\ \E k \in DriftStreams :
          \/ \E p \in DriftPlankton, i \in {0, 4} :
                probe = [fn |-> "plankton", args |-> <<p, k, i>>,
                         done |-> FALSE, result |-> p]
          \/ \E o \in DriftOctopus :
                probe = [fn |-> "update_octopus", args |-> <<o, k, 0>>,
                         done |-> FALSE, result |-> o]
          \/ \E j \in DriftJellyfish, i \in {0, 1} :
                probe = [fn |-> "update_jellyfish", args |-> <<j, k, i>>,
                         done |-> FALSE, result |-> j]

\* the update of the entity returns
drift_call ==
    /\ probe.fn \in {"plankton", "update_octopus", "update_jellyfish"}
    /\ ~probe.done
    /\ probe' = [probe EXCEPT
                   !.done = TRUE,
                   !.result =
                      CASE probe.fn = "plankton" ->
                              UpdateOnePlankton(probe.args[1], probe.args[2], probe.args[3])
                        [] probe.fn = "update_octopus" ->
                              update_octopus(probe.args[1], probe.args[2])
                        [] OTHER ->
                              update_jellyfish(probe.args[1], probe.args[2], probe.args[3])]
    /\ UNCHANGED <<sim_vars, layer_vars, s_main_window, s_path, s_animation_timer,
                   s_battery_level, s_is_charging, s_time_buffer, pc, window, timers,
                   next_timer, fired, cancelled, battery, created, destroyed, dirty,
                   ticks, requests, sample, draw_vars>>

NextDrift == drift_call

SpecDrift == InitDrift /\ [][NextDrift]_vars

\* C28: after its update an active plankton has 0 <= x <= 144 and
\* 0 <= y <= 168; the octopus has 10 <= x <= 134 and the y it had; a
\* jellyfish has 10 <= x <= 134 and 60 <= y <= 120, and its y has not grown
C28_DriftersInClampRanges ==
    probe.done =>
       /\ probe.fn = "plankton" /\ probe.result.active =>
             /\ probe.result.pos.x \in 0 .. 144
             /\ probe.result.pos.y \in 0 .. 168
       /\ probe.fn = "update_octopus" =>
             /\ probe.result.pos.x \in 10 .. 134
             /\ probe.result.pos.y = probe.args[1].pos.y
       /\ probe.fn = "update_jellyfish" =>
             /\ probe.result.pos.x \in 10 .. 134
             /\ probe.result.pos.y \in 60 .. 120
             /\ probe.result.pos.y <= probe.args[1].pos.y

\* the octopus at x = 134 has drawn a move of +1 and is still at x = 134
C28_Witness ==
    /\ probe.done
    /\ probe.fn = "update_octopus"
    /\ probe.args[1].pos.x = 134
    /\ random_in_range(0, 9, Rand(probe.args[2], Site.octopus_move, 0)) = 0
    /\ random_in_range(-1, 1, Rand(probe.args[2], Site.octopus_dx, 0)) = 1
    /\ probe.result.pos.x = 134

\* C29: a GPath is created only while the window loads and destroyed only
\* while it unloads or the program exits; no redraw or tick creates or
\* destroys one
C29_PathsOnlyAtSetupAndTeardown ==
    [][\A p \in PathNames :
          /\ created'[p] # created[p] => IsLoad
          /\ destroyed'[p] # destroyed[p] =>
                \/ window = "loaded" /\ window' = "unloaded"
                \/ pc' = "exited"]_vars

\* a redraw of the simple variant has ended in a loaded window: its draw_fish
\* calls have created tail paths and destroyed each of them
C29_Witness ==
    /\ pc = "loop"
    /\ window = "loaded"
    /\ drawn # << >>
    /\ created["s_fish_tail_path"] = SIMPLE_MAX_FISH
    /\ destroyed["s_fish_tail_path"] = SIMPLE_MAX_FISH

(***************************************************************************)
(* A battery report between two animation steps                            *)
(***************************************************************************)
\* this step of the behaviour is a battery_callback
IsBatteryReport == battery' # battery

\* C30: battery_callback stores the reported level and charging flag and
\* marks the battery layer dirty, and changes nothing else: the pools, the
\* timer handle and the pending timer with its period are as before.  The
\* timer that fires next is one that was pending, with the period it was
\* armed at, and the callback it runs asks for the period of the battery
\* state stored by then
C30_BatteryReportLeavesTimer ==
    [][/\ IsBatteryReport =>
             /\ s_battery_level' = battery'.charge_percent
             /\ s_is_charging' = battery'.is_charging
             /\ dirty' \in {dirty, dirty \cup {"s_battery_layer"}}
             /\ UNCHANGED <<sim_vars, timers, s_animation_timer, next_timer, fired,
                            cancelled, requests, ticks, layer_vars, s_path,
                            s_main_window, created, destroyed, window, pc>>
       /\ IsStep =>
             /\ step'.timer \in timers
             /\ requests'[1].interval = NextInterval(s_battery_level, s_is_charging)]_vars

\* the last callback armed the timer at 50 ms, the host has since reported
\* 15 % and not charging, and the timer is still pending at 50 ms
C30_Witness ==
    /\ ticks >= 1
    /\ requests = <<[interval |-> ANIMATION_INTERVAL, ok |-> TRUE]>>
    /\ s_battery_level = 15
    /\ ~s_is_charging
    /\ "s_battery_layer" \in dirty
    /\ timers = {[id |-> s_animation_timer, interval |-> ANIMATION_INTERVAL]}

(***************************************************************************)
(* The shark block, run again and again                                    *)
(***************************************************************************)
\* SharkNext counting the dormant shark's timer down by two
SharkNextCountsByTwo(shark, k) ==
    IF shark.active
    THEN LET moved == [shark EXCEPT !.pos.x = @ + (shark.direction * shark.speed)]
         IN  IF (moved.direction = 1 /\ moved.pos.x > 174)
                \/ (moved.direction = -1 /\ moved.pos.x < -30)
             THEN [moved EXCEPT !.active = FALSE,
                                !.timer = random_in_range(200, 500,
                                             Rand(k, Site.shark_cooldown, 0))]
             ELSE moved
    ELSE LET counted == [shark EXCEPT !.timer = @ - 2]
         IN  IF counted.timer <= 0 THEN [init_shark(k) EXCEPT !.active = TRUE]
                                   ELSE counted

\* what the shark block of a step does to the shark itself: the move and the
\* exit test of an active shark, the countdown and the wake-up of a dormant one
SharkNext(shark, k) ==
    IF shark.active
    THEN LET moved == [shark EXCEPT !.pos.x = @ + (shark.direction * shark.speed)]
         IN  IF (moved.direction = 1 /\ moved.pos.x > 174)
                \/ (moved.direction = -1 /\ moved.pos.x < -30)
             THEN [moved EXCEPT !.active = FALSE,
                                !.timer = random_in_range(200, 500,
                                             Rand(k, Site.shark_cooldown, 0))]
             ELSE moved
    ELSE LET counted == [shark EXCEPT !.timer = @ - 1]
         IN  IF counted.timer <= 0 THEN [init_shark(k) EXCEPT !.active = TRUE]
                                   ELSE counted

\* the shark's own part of the shark block of one step; its fish loop is
\* shark_fish_loop
shark_update ==
    /\ pc = "loop"
    /\ \E k \in Streams : s_shark' = SharkNext(s_shark, k)
    /\ UNCHANGED <<s_fish, s_bubbles, s_seaweed, s_plankton, s_octopus, s_turtles,
                   s_jellyfish, s_seahorse, s_crab, s_clam, s_fish_in_grid,
                   s_fish_grid_counts, step,
                   s_main_window, layer_vars, s_path, s_animation_timer, s_battery_level,
                   s_is_charging, s_time_buffer, pc, window, timers, next_timer, fired,
                   cancelled, battery, created, destroyed, dirty, ticks, requests,
                   sample, probe, draw_vars>>

NextShark == shark_update \/ shark_fish_loop

\* the ticks keep firing: the shark is updated in step after step
SpecShark == InitDraw /\ [][NextShark]_vars /\ WF_vars(shark_update)

\* every step treats the shark as SharkNext does
SharkNextIsTheBlock ==
    [][IsStep => \E k \in Streams : s_shark' = SharkNext(s_shark, k)]_vars

\* the steps an active shark has left: the least n with x + 3n > 174 when it
\* heads right, with x - 3n < -30 when it heads left
StepsToExit ==
    IF s_shark.direction = 1 THEN ((174 - s_shark.pos.x) \div s_shark.speed) + 1
                             ELSE ((s_shark.pos.x + 30) \div s_shark.speed) + 1

\* C31: the shark alternates forever between dormant and roaming.  A dormant
\* shark has a timer of at least 1, counts it down by one per update and
\* wakes in the update that takes it to 0; an active shark has between 1 and
\* 69 updates left to its exit edge, one fewer after every update, and goes
\* dormant in the last of them; so a dormant shark becomes active and an
\* active one dormant
C31_SharkAlternates ==
    /\ [](IF s_shark.active THEN StepsToExit \in 1 .. 69 ELSE s_shark.timer >= 1)
    /\ [][/\ ~s_shark.active /\ s_shark.timer > 1 =>
                ~s_shark'.active /\ s_shark'.timer = s_shark.timer - 1
          /\ ~s_shark.active /\ s_shark.timer = 1 => s_shark'.active
          /\ s_shark.active /\ StepsToExit > 1 =>
                s_shark'.active /\ StepsToExit' = StepsToExit - 1
          /\ s_shark.active /\ StepsToExit = 1 => ~s_shark'.active]_s_shark
    /\ (~s_shark.active) ~> s_shark.active
    /\ s_shark.active ~> (~s_shark.active)

\* the shark has crossed to the right exit edge, gone dormant with the
\* cooldown of stream 1 and counted part of it down
C31_Witness ==
    /\ ~s_shark.active
    /\ s_shark.pos.x = 177
    /\ s_shark.timer \in 100 .. 206

(***************************************************************************)
(* The life of one bubble slot                                             *)
(***************************************************************************)
\* a bubble slot as an earlier step left it: empty, just spawned at the
\* bottom, created by an eating event at a fish's height, or near the top;
\* slots 1 and 7 are refilled by the spawn draw of rand() stream 1, slot 0 by
\* the one of stream 2
InitBubbleLife ==
    /\ ProcessStart
    /\ battery = [charge_percent |-> 21, is_charging |-> FALSE]
    /\ sample = NoSample
    /\ \E i \in {0, 1, 7}, y \in {0, 1, 119, 168}, sp \in 1 .. 3, a \in BOOLEAN :
          probe = [fn |-> "bubble_loop", args |-> <<i>>, done |-> FALSE,
                   result |-> Bubble(72, y, sp, sp, a)]

\* the body of the bubble loop for the slot, in one step after another
bubble_iteration ==
    /\ probe.fn = "bubble_loop"
    /\ \E k \in Streams :
          probe' = [probe EXCEPT !.done = TRUE,
                                 !.result = UpdateOneBubble(probe.result, k, probe.args[1])]
    /\ UNCHANGED <<sim_vars, layer_vars, s_main_window, s_path, s_animation_timer,
                   s_battery_level, s_is_charging, s_time_buffer, pc, window, timers,
                   next_timer, fired, cancelled, battery, created, destroyed, dirty,
                   ticks, requests, sample, draw_vars>>

NextBubbleLife == bubble_iteration

\* the ticks keep firing: the bubble loop runs in step after step
SpecBubbleLife == InitBubbleLife /\ [][NextBubbleLife]_vars /\ WF_vars(bubble_iteration)

\* the updates an active bubble has left: the least n with y - n * speed < 0
UpdatesToTop == (probe.result.pos.y \div probe.result.speed) + 1

\* C32: an active bubble has 0 <= y <= 168 and a speed of at least 1, so at
\* most 169 updates left; each update takes its speed from its y, one update
\* fewer is left after it, the update that takes y below 0 leaves the slot
\* inactive and not reinitialised, and every active bubble becomes inactive
C32_BubblesReachTheTop ==
    /\ [](probe.result.active =>
             /\ probe.result.pos.y \in 0 .. 168
             /\ probe.result.speed >= 1
             /\ UpdatesToTop \in 1 .. 169)
    /\ [][probe.result.active =>
             /\ probe'.result.pos.y = probe.result.pos.y - probe.result.speed
             /\ probe'.result.speed = probe.result.speed
             /\ probe'.result.active <=> probe'.result.pos.y >= 0
             /\ probe'.result.active => UpdatesToTop' = UpdatesToTop - 1]_vars
    /\ probe.result.active ~> (~probe.result.active)

\* a bubble spawned at the bottom of the screen by the bubble loop has risen
\* past the top: the slot is inactive with y below 0
C32_Witness ==
    /\ probe.done
    /\ ~probe.result.active
    /\ probe.result.pos.y < 0
    /\ probe.result.pos.x # 72

(***************************************************************************)
(* What the init functions give, and what is left of it later              *)
(***************************************************************************)
\* C33: in every state after a setup that ran to its end (it created the
\* last of the four layers and initialised the pools) every fish is in direction -1 or 1, has
\* y in 20 .. 119 and a speed in 2 .. 4 for size 1 and in 1 .. 2 for size 2;
\* every turtle has y in 60 .. 119 and direction -1 or 1; the shark has y in
\* 50 .. 99 and direction -1 or 1; every active plankton has x in 0 .. 143
\* and y in 20 .. 139
C33_InitBoundsKept ==
    created["s_battery_layer"] >= 1 =>
       /\ \A i \in FishIdx :
             /\ s_fish[i].direction \in {-1, 1}
             /\ s_fish[i].pos.y \in 20 .. 119
             /\ s_fish[i].size = 1 => s_fish[i].speed \in 2 .. 4
             /\ s_fish[i].size = 2 => s_fish[i].speed \in 1 .. 2
       /\ \A i \in 0 .. (MAX_TURTLES - 1) :
             /\ s_turtles[i].pos.y \in 60 .. 119
             /\ s_turtles[i].direction \in {-1, 1}
       /\ s_shark.pos.y \in 50 .. 99
       /\ s_shark.direction \in {-1, 1}
       /\ \A i \in PlanktonIdx :
             s_plankton[i].active =>
                /\ s_plankton[i].pos.x \in 0 .. 143
                /\ s_plankton[i].pos.y \in 20 .. 139

\* a step after a full setup has ended with an active plankton above the
\* band init_plankton puts it in
C33_Witness ==
    /\ created["s_battery_layer"] >= 1
    /\ ticks > 0
    /\ \E i \in PlanktonIdx :
          /\ s_plankton[i].active
          /\ s_plankton[i].pos.y = 19
          /\ s_plankton[i].pos.x \in 0 .. 143

\* the first statement of draw_fish, draw_bubble, draw_plankton and draw_shark:
\* the call goes on to the graphics calls only for an active slot
Paints(call) ==
    CASE call.fn = "draw_fish" -> s_fish[call.i].active
      [] call.fn = "draw_bubble" -> s_bubbles[call.i].active
      [] call.fn = "draw_plankton" -> s_plankton[call.i].active
      [] call.fn = "draw_shark" -> s_shark.active
      [] OTHER -> TRUE

\* the fish, bubble and plankton slots that are inactive when a step starts
InactiveFish == {i \in FishIdx : ~s_fish[i].active}
InactiveBubbles == {i \in BubbleIdx : ~s_bubbles[i].active}
InactivePlankton == {i \in PlanktonIdx : ~s_plankton[i].active}

C35_TimerHandleIsThePendingTimer ==
    /\ Cardinality(timers) <= 1
    /\ IF s_animation_timer = NULL
       THEN timers = {}
       ELSE /\ \E t \in timers : t.id = s_animation_timer
            /\ s_animation_timer \notin (fired \cup cancelled)

\* a timer has fired and the callback has registered the next one, whose
\* handle s_animation_timer holds
C35_Witness ==
    /\ pc = "loop"
    /\ ticks > 0
    /\ fired # {}
    /\ s_animation_timer # NULL
    /\ s_animation_timer \notin fired
    /\ timers = {[id |-> s_animation_timer,
                  interval |-> NextInterval(s_battery_level, s_is_charging)]}

\* the slots the prey filter of the collision loop lets through
PreyFilter == {j \in FishIdx : j < MAX_FISH /\ s_fish[j].size = 1}

C37_NoLayerUseAfterUnload ==
    /\ [](window = "unloaded" =>
             /\ ~s_canvas_layer /\ ~s_time_layer /\ ~s_date_layer /\ ~s_battery_layer
             /\ dirty = {}
             /\ \A l \in LayerNames : destroyed[l] = created[l])
    /\ [][window = "unloaded" =>
             /\ s_time_buffer' = s_time_buffer
             /\ dirty' = dirty
             /\ UNCHANGED layer_vars
             /\ \A l \in LayerNames : destroyed'[l] = destroyed[l]]_vars

\* the window is unloaded with every layer destroyed once, the event loop
\* still runs, and after the last step the battery reported a low level
C37_Witness ==
    /\ window = "unloaded"
    /\ pc = "loop"
    /\ ticks > 0
    /\ \A l \in LayerNames : created[l] = 1 /\ destroyed[l] = 1
    /\ ~s_battery_layer
    /\ dirty = {}
    /\ requests[1].interval = ANIMATION_INTERVAL
    /\ NextInterval(s_battery_level, s_is_charging) = ANIMATION_INTERVAL_LOW_POWER

\* the plankton slots that are active
ActivePlankton == {i \in PlanktonIdx : s_plankton[i].active}

\* C38: a step leaves every active plankton active, so the set of active
\* plankton only grows and their number never decreases
C38_PlanktonStayActive ==
    [][IsStep =>
         /\ ActivePlankton \subseteq ActivePlankton'
         /\ Cardinality(ActivePlankton') >= Cardinality(ActivePlankton)]_vars

\* after a step the plankton that were active at the start are active, one of
\* them has drifted, and a slot that was inactive has been filled
C38_Witness ==
    /\ ticks > 0
    /\ \E i \in PlanktonIdx :
          /\ LoadScene(ZeroScene, 1).plankton[i].active
          /\ s_plankton[i].active
          /\ s_plankton[i].pos # LoadScene(ZeroScene, 1).plankton[i].pos
    /\ \E i \in ActivePlankton : ~LoadScene(ZeroScene, 1).plankton[i].active

(***************************************************************************)
(* The crab, step after step                                               *)
(***************************************************************************)
\* the crab block of animation_update
crab_update ==
    /\ pc = "loop"
    /\ s_crab' = update_crab(s_crab)
    /\ UNCHANGED <<s_fish, s_bubbles, s_seaweed, s_plankton, s_octopus, s_turtles,
                   s_jellyfish, s_shark, s_seahorse, s_clam, s_fish_in_grid,
                   s_fish_grid_counts, step,
                   s_main_window, layer_vars, s_path, s_animation_timer, s_battery_level,
                   s_is_charging, s_time_buffer, pc, window, timers, next_timer, fired,
                   cancelled, battery, created, destroyed, dirty, ticks, requests,
                   sample, probe, draw_vars>>

NextCrab == crab_update

\* the ticks keep firing: the crab is updated in step after step
SpecCrab == InitDraw /\ [][NextCrab]_vars /\ WF_vars(crab_update)

\* the crab is at one of its two turning points
CrabAtEdge == s_crab.pos.x = 15 \/ s_crab.pos.x = 130

\* C39: after setup the crab's x is in [15,130]; a step moves it one pixel
\* the way it faces and turns it round exactly when it arrives at x = 15 or
\* x = 130, the next step takes it off that edge, and while steps keep
\* running it is at x = 15 and at x = 130 again and again
C39_CrabPatrols ==
    /\ [](s_crab.pos.x \in 15 .. 130 /\ s_crab.pos.y = 160)
    /\ [][/\ s_crab'.pos.x = s_crab.pos.x + s_crab.direction
          /\ s_crab.direction \in {-1, 1}
          /\ (s_crab'.direction # s_crab.direction) <=> CrabAtEdge'
          /\ CrabAtEdge => ~CrabAtEdge']_s_crab
    /\ []<>(s_crab.pos.x = 15)
    /\ []<>(s_crab.pos.x = 130)

\* the crab is at x = 130 for the second time: 430 steps after setup, having
\* turned at x = 15 twice
C39_Witness ==
    /\ s_crab.pos.x = 130
    /\ s_crab.direction = -1
    /\ s_crab.claw_state = 10

====
